---- MODULE Spec2Model ----
(***************************************************************************)
(* BREP-to-graph construction pipeline of qyy85/deploy: the identity       *)
(* registry (IDManager), the per-entity classifier and feature extractor   *)
(* (FaceExtractor / EdgeExtractor and the BaseFace / BaseEdge hierarchy)   *)
(* and the per-file analysis loop (FeatureExtractor).                      *)
(*                                                                         *)
(* The geometry kernel (pythonocc) is an external collaborator: what it    *)
(* answers for an entity (its type tag, which accessor throws) is an input *)
(* drawn from bounded sets; the kernel answers the same for the same       *)
(* entity every time it is asked.                                          *)
(***************************************************************************)
EXTENDS Integers, Sequences, FiniteSets, TLC

VARIABLES
    face_map,           \* IDManager._face_map: the shapes added, in order
    edge_map,           \* IDManager._edge_map
    calls,              \* history: the get_*_id calls since the last reset, with
                        \*   the count of the kind before and after each
    pc,                 \* FeatureExtractor: where the analysis of a file stands
    shape,              \* the shape loaded from the file under analysis
    fpos,               \* face_explorer: index of the current face visit
    epos,               \* edge_explorer: index of the current edge visit
    processed_faces,    \* extract_faces_objects: ids already processed
    processed_edges,    \* extract_edges_objects: ids already processed
    faces_objects,      \* the face records of the result ("nodes")
    edges_obj,          \* the edge records of the result ("edges")
    dropped,            \* history: records an extractor returned that were left out
    stale,              \* history: the registry held face and edge mappings of an
                        \*   earlier file when the analysis under way began
    exIn,               \* a single extraction: the entity and the kernel's answers
    exOut,              \*   what extract_face_object / extract_edge_object gave
    exPc,               \*   "call" before, "returned" after
    nodes,              \* HeterogeneousGraph.nodes: the dict's values, in key order
    edges,              \* HeterogeneousGraph.edges
    dgl_graph,          \* what build_dgl_graph gave: the graph made, the exception
    gLast,              \* history: the last call on the graph and what it printed
    ret,                \* what process_step_to_graph returned
    prev,               \* history: the shape and the result of the run before
    hom,                \* the XML pipeline's graph under to_homogeneous: its
                        \*   tensors as built, before the last call and now
    batch,              \* process_step_files_batch: the files, the futures of
                        \*   the pool, the results list and where the call stands
    ui                  \* FileHandler.process_batch_files: the progress queue,
                        \*   the loader thread and where the generator stands

regVars == <<face_map, edge_map, calls>>

pipeVars == <<pc, shape, fpos, epos, processed_faces, processed_edges,
              faces_objects, edges_obj, dropped, stale>>

exVars == <<exIn, exOut, exPc>>

graphVars == <<nodes, edges, dgl_graph, gLast, ret>>

auxVars == <<exVars, prev, hom, batch, ui>>

vars == <<regVars, pipeVars, auxVars, graphVars>>

(***************************************************************************)
(* Bounds of the model.                                                    *)
(***************************************************************************)
MaxEnts == 2
MaxCalls == 4

Orientations == {"FORWARD", "REVERSED", "INTERNAL", "EXTERNAL"}

(***************************************************************************)
(* A TopoDS_Shape wrapper object: the underlying TShape (ent, tagged with  *)
(* the file it was loaded from) and the orientation the wrapper carries.   *)
(***************************************************************************)
Shape(file, n, ori) == [file |-> file, ent |-> n, ori |-> ori]

RegWrappers == {Shape("cur", n, o) : n \in 1..MaxEnts, o \in {"FORWARD", "REVERSED"}}

(***************************************************************************)
(* TopTools_IndexedMapOfShape: keys are compared with IsSame(), that is by *)
(* TShape (and location), whatever the orientation of the wrapper.         *)
(***************************************************************************)
\* IsEqual() would also compare the orientations
IsEqualShape(a, b) == a = b

IsSame(a, b) == a.file = b.file /\ a.ent = b.ent

\* FindIndex: the 1-based index of the key, 0 when it is absent
FindIndex(map, s) ==
    IF \E i \in DOMAIN map : IsSame(map[i], s)
    THEN CHOOSE i \in DOMAIN map : IsSame(map[i], s)
    ELSE 0

\* Add: the map after adding the key (unchanged when it is there already)
Add(map, s) == IF FindIndex(map, s) = 0 THEN Append(map, s) ELSE map

Size(map) == Len(map)

Clear(map) == <<>>

(***************************************************************************)
(* IDManager.get_edge_id / get_face_id: the id returned and the map after. *)
(***************************************************************************)
get_edge_id(map, edge) ==
    LET index == FindIndex(map, edge)
        added == IF index = 0 THEN Add(map, edge) ELSE map
    IN  [id |-> (IF index = 0 THEN FindIndex(added, edge) ELSE index) - 1,
         map |-> added]

\* the variant that returns Add's 1-based index as it is
get_face_id_one_based(map, face) ==
    [id |-> FindIndex(Add(map, face), face), map |-> Add(map, face)]

get_face_id(map, face) ==
    LET index == FindIndex(map, face)
        added == IF index = 0 THEN Add(map, face) ELSE map
    IN  [id |-> (IF index = 0 THEN FindIndex(added, face) ELSE index) - 1,
         map |-> added]

edge_count == Size(edge_map)

face_count == Size(face_map)



(***************************************************************************)
(* Feature values.  A Python attribute holds None, a number or a list of   *)
(* numbers; list.extend(x) needs a list, list.append(x) takes anything.    *)
(* What the kernel returns for an accessor is a fixed number per accessor. *)
(***************************************************************************)
None == [t |-> "none", v |-> <<>>]

Num(x) == [t |-> "num", v |-> <<x>>]

List(s) == [t |-> "list", v |-> s]

FAILED_EXTRACTION == -1

Sentinel == Num(FAILED_EXTRACTION)

NoneType == "None"

Ext(name) == [op |-> "extend", name |-> name]

App(name) == [op |-> "append", name |-> name]

(***************************************************************************)
(* Orientation.from_topabs                                                 *)
(***************************************************************************)
from_topabs(topabs_orientation) ==
    CASE topabs_orientation = "FORWARD"  -> 0
      [] topabs_orientation = "REVERSED" -> 1
      [] topabs_orientation = "INTERNAL" -> 2
      [] topabs_orientation = "EXTERNAL" -> 3
      [] OTHER -> 0

(***************************************************************************)
(* The kernel's answers for one face: its surface type tag and the set of  *)
(* accessors that throw for it (DownCastNull: the down-cast of its surface *)
(* yields no surface).                                                     *)
(***************************************************************************)
SurfaceTags ==
    {"GeomAbs_Plane", "GeomAbs_Cylinder", "GeomAbs_Cone", "GeomAbs_Sphere",
     "GeomAbs_Torus", "GeomAbs_BezierSurface", "GeomAbs_BSplineSurface",
     "GeomAbs_SurfaceOfRevolution", "GeomAbs_SurfaceOfExtrusion",
     "GeomAbs_OffsetSurface", "GeomAbs_OtherSurface", "GeomAbs_unrecognised"}

FaceAccessors ==
    {"BRepAdaptor_Surface", "GetType", "UVParameter", "SurfaceProperties",
     "Value", "Tolerance", "NaturalRestriction", "Geometry", "DownCastNull"}

Throws(kb, accessor) == accessor \in kb.fails

(***************************************************************************)
(* The kind-specific tier of each face class: the attributes set by        *)
(* _extract_geometry_features, whether it raised the error flag, and the   *)
(* extend/append calls of the class's get_feature_vector.                  *)
(***************************************************************************)
PlaneFace(kb) ==
    [type |-> "Plane",
     geom |-> IF Throws(kb, "Geometry")
              THEN [normal |-> Sentinel, x_axis |-> Sentinel, y_axis |-> Sentinel]
              ELSE [normal |-> List(<<60, 61, 62>>), x_axis |-> List(<<63, 64, 65>>),
                    y_axis |-> List(<<66, 67, 68>>)],
     error |-> Throws(kb, "Geometry"),
     vector |-> <<Ext("normal"), Ext("x_axis"), Ext("y_axis")>>]

CylindricalFace(kb) ==
    [type |-> "Cylinder",
     geom |-> IF Throws(kb, "Geometry") \/ Throws(kb, "UVParameter")
              THEN [axis_direction |-> Sentinel, radius |-> Sentinel, height |-> Sentinel,
                    angular_range |-> Sentinel, is_full_cylinder |-> Sentinel]
              ELSE [axis_direction |-> List(<<60, 61, 62>>), radius |-> Num(50),
                    height |-> IF Throws(kb, "Value") THEN Num(1) ELSE Num(52),
                    angular_range |-> Num(1), is_full_cylinder |-> Num(0)],
     error |-> Throws(kb, "Geometry") \/ Throws(kb, "UVParameter"),
     vector |-> <<Ext("axis_direction"), App("radius"), App("height"),
                  App("angular_range"), App("is_full_cylinder")>>]

ConicalFace(kb) ==
    [type |-> "Cone",
     geom |-> IF Throws(kb, "Geometry") \/ Throws(kb, "UVParameter")
              THEN [axis_direction |-> Sentinel, semi_angle |-> Sentinel,
                    ref_radius |-> Sentinel, height |-> Sentinel,
                    angular_range |-> Sentinel]
              ELSE [axis_direction |-> List(<<60, 61, 62>>), semi_angle |-> Num(51),
                    ref_radius |-> Num(50),
                    height |-> IF Throws(kb, "Value") THEN Num(1) ELSE Num(52),
                    angular_range |-> Num(1)],
     error |-> Throws(kb, "Geometry") \/ Throws(kb, "UVParameter"),
     vector |-> <<Ext("axis_direction"), App("semi_angle"), App("ref_radius"),
                  App("height"), App("angular_range")>>]

SphericalFace(kb) ==
    [type |-> "Sphere",
     geom |-> IF Throws(kb, "Geometry") \/ Throws(kb, "UVParameter")
              THEN [radius |-> Sentinel, u_range |-> Sentinel, v_range |-> Sentinel,
                    is_full_sphere |-> Sentinel]
              ELSE [radius |-> Num(50), u_range |-> Num(1), v_range |-> Num(1),
                    is_full_sphere |-> Num(0)],
     error |-> Throws(kb, "Geometry") \/ Throws(kb, "UVParameter"),
     vector |-> <<App("radius"), App("u_range"), App("v_range"), App("is_full_sphere")>>]

ToroidalFace(kb) ==
    [type |-> "Torus",
     geom |-> IF Throws(kb, "Geometry") \/ Throws(kb, "UVParameter")
              THEN [axis_direction |-> Sentinel, major_radius |-> Sentinel,
                    minor_radius |-> Sentinel, angular_range |-> Sentinel]
              ELSE [axis_direction |-> List(<<60, 61, 62>>), major_radius |-> Num(50),
                    minor_radius |-> Num(51), angular_range |-> Num(1)],
     error |-> Throws(kb, "Geometry") \/ Throws(kb, "UVParameter"),
     vector |-> <<Ext("axis_direction"), App("major_radius"), App("minor_radius"),
                  App("angular_range")>>]

BSplineFace(kb) ==
    [type |-> "BSplineSurface",
     geom |-> IF Throws(kb, "Geometry")
              THEN [u_degree |-> Sentinel, v_degree |-> Sentinel, num_u_poles |-> Sentinel,
                    num_v_poles |-> Sentinel, is_rational |-> Sentinel,
                    is_u_periodic |-> Sentinel, is_v_periodic |-> Sentinel]
              ELSE [u_degree |-> Num(3), v_degree |-> Num(3), num_u_poles |-> Num(4),
                    num_v_poles |-> Num(4), is_rational |-> Num(0),
                    is_u_periodic |-> Num(0), is_v_periodic |-> Num(0)],
     error |-> Throws(kb, "Geometry"),
     vector |-> <<App("u_degree"), App("v_degree"), App("num_u_poles"),
                  App("num_v_poles"), App("is_rational"), App("is_u_periodic"),
                  App("is_v_periodic")>>]

BezierFace(kb) ==
    [type |-> "BezierSurface",
     geom |-> IF Throws(kb, "Geometry")
              THEN [u_degree |-> Sentinel, v_degree |-> Sentinel, num_u_poles |-> Sentinel,
                    num_v_poles |-> Sentinel, is_rational |-> Sentinel]
              ELSE [u_degree |-> Num(3), v_degree |-> Num(3), num_u_poles |-> Num(4),
                    num_v_poles |-> Num(4), is_rational |-> Num(0)],
     error |-> Throws(kb, "Geometry"),
     vector |-> <<App("u_degree"), App("v_degree"), App("num_u_poles"),
                  App("num_v_poles"), App("is_rational")>>]

RevolutionFace(kb) ==
    [type |-> "SurfaceOfRevolution",
     geom |-> IF Throws(kb, "Geometry") \/ Throws(kb, "DownCastNull")
                 \/ Throws(kb, "UVParameter")
              THEN [axis_direction |-> Sentinel, angular_range |-> Sentinel]
              ELSE [axis_direction |-> List(<<60, 61, 62>>), angular_range |-> Num(1)],
     \* the branch taken when the down-cast yields no surface sets no error flag
     error |-> \/ Throws(kb, "Geometry")
               \/ (~Throws(kb, "DownCastNull") /\ Throws(kb, "UVParameter")),
     vector |-> <<Ext("axis_direction"), App("angular_range")>>]

ExtrusionFace(kb) ==
    [type |-> "SurfaceOfExtrusion",
     geom |-> IF Throws(kb, "Geometry") \/ Throws(kb, "DownCastNull")
                 \/ Throws(kb, "UVParameter")
              THEN [extrusion_direction |-> Sentinel, extrusion_length |-> Sentinel,
                    has_basis_curve |-> Num(0)]
              ELSE [extrusion_direction |-> List(<<60, 61, 62>>),
                    extrusion_length |-> Num(1), has_basis_curve |-> Num(1)],
     error |-> Throws(kb, "Geometry") \/ Throws(kb, "DownCastNull")
                 \/ Throws(kb, "UVParameter"),
     vector |-> <<Ext("extrusion_direction"), App("extrusion_length")>>]

OffsetFace(kb) ==
    [type |-> "OffsetSurface",
     geom |-> IF Throws(kb, "Geometry") \/ Throws(kb, "DownCastNull")
              THEN [offset_value |-> Sentinel]
              ELSE [offset_value |-> Num(55)],
     error |-> Throws(kb, "Geometry") \/ Throws(kb, "DownCastNull"),
     vector |-> <<App("offset_value")>>]

OtherSurface(surface_type_name) ==
    [type |-> surface_type_name, geom |-> <<>>, error |-> FALSE, vector |-> <<>>]


(***************************************************************************)
(* FaceExtractor._create_face_object: the class built for a type tag.      *)
(***************************************************************************)
_create_face_object(surface_type, kb) ==
    CASE surface_type = "GeomAbs_Plane"               -> PlaneFace(kb)
      [] surface_type = "GeomAbs_Cylinder"            -> CylindricalFace(kb)
      [] surface_type = "GeomAbs_Cone"                -> ConicalFace(kb)
      [] surface_type = "GeomAbs_Sphere"              -> SphericalFace(kb)
      [] surface_type = "GeomAbs_Torus"               -> ToroidalFace(kb)
      [] surface_type = "GeomAbs_BSplineSurface"      -> BSplineFace(kb)
      [] surface_type = "GeomAbs_BezierSurface"       -> BezierFace(kb)
      [] surface_type = "GeomAbs_SurfaceOfRevolution" -> RevolutionFace(kb)
      [] surface_type = "GeomAbs_SurfaceOfExtrusion"  -> ExtrusionFace(kb)
      [] surface_type = "GeomAbs_OffsetSurface"       -> OffsetFace(kb)
      [] surface_type = "GeomAbs_OtherSurface"        -> OtherSurface("OtherSurface")
      [] OTHER                                        -> OtherSurface("Unknown")

(***************************************************************************)
(* BaseFace.__init__: every feature attribute None, error False.           *)
(***************************************************************************)
BaseFace(face, face_id, cls) ==
    [face |-> face, id |-> face_id, type |-> NoneType,
     uv_bounds |-> None, area |-> None, center |-> None, tolerance |-> None,
     natural_restriction |-> None, orientation |-> None,
     error |-> FALSE, geom |-> <<>>, vector |-> cls.vector]

(***************************************************************************)
(* The four base-tier sub-steps of BaseFace, each the record after it.     *)
(***************************************************************************)
Face_extract_parameter_domain(r, kb) ==
    IF Throws(kb, "UVParameter")
    THEN [r EXCEPT !.uv_bounds = Sentinel, !.error = TRUE]
    ELSE [r EXCEPT !.uv_bounds = List(<<10, 11, 12, 13>>)]

Face_calculate_uv_center(r, kb) ==
    IF Throws(kb, "UVParameter") \/ Throws(kb, "Value")
    THEN [r EXCEPT !.center = Sentinel, !.error = TRUE]
    ELSE [r EXCEPT !.center = List(<<20, 21, 22>>)]

Face_extract_metric_features(r, kb) ==
    Face_calculate_uv_center(
        IF Throws(kb, "SurfaceProperties")
        THEN [r EXCEPT !.area = Sentinel, !.error = TRUE]
        ELSE [r EXCEPT !.area = Num(30)],
        kb)

Face_extract_precision_features(r, kb) ==
    IF Throws(kb, "Tolerance")
    THEN [r EXCEPT !.tolerance = Sentinel, !.error = TRUE]
    ELSE [r EXCEPT !.tolerance = Num(40)]

Face_extract_topology_features(r, kb) ==
    IF Throws(kb, "NaturalRestriction")
    THEN [r EXCEPT !.natural_restriction = Sentinel, !.orientation = Sentinel,
                   !.error = TRUE]
    ELSE [r EXCEPT !.natural_restriction = Num(1),
                   !.orientation = Num(from_topabs(r.face.ori))]

Face_extract_base_features(r, cls, kb) ==
    Face_extract_topology_features(
        Face_extract_precision_features(
            Face_extract_metric_features(
                Face_extract_parameter_domain([r EXCEPT !.type = cls.type], kb),
                kb),
            kb),
        kb)

\* BaseFace.extract_all_features: the base tier, then the kind-specific tier
Face_extract_all_features(r, cls, kb) ==
    LET b == Face_extract_base_features(r, cls, kb)
    IN  [b EXCEPT !.geom = cls.geom, !.error = b.error \/ cls.error]

(***************************************************************************)
(* FaceExtractor.extract_face_object: the record returned, or raised when  *)
(* the exception leaves the method.  The except branch builds the fallback *)
(* OtherSurface, whose constructor asks for the adaptor again, and returns *)
(* it without extracting anything.                                         *)
(***************************************************************************)
NoRecord == [type |-> NoneType, error |-> FALSE]

extract_face_object(face, face_id, kb) ==
    IF Throws(kb, "BRepAdaptor_Surface")
    THEN [raised |-> TRUE, rec |-> NoRecord]
    ELSE IF Throws(kb, "GetType")
    THEN [raised |-> FALSE, rec |-> BaseFace(face, face_id, OtherSurface("Unknown"))]
    ELSE LET cls == _create_face_object(kb.tag, kb)
         IN  [raised |-> FALSE,
              rec |-> Face_extract_all_features(BaseFace(face, face_id, cls), cls, kb)]

(***************************************************************************)
(* get_feature_vector: the extend/append calls in order; extend of a value *)
(* that is no list raises TypeError, append adds the value whatever it is. *)
(***************************************************************************)
FieldOf(r, name) == IF name \in DOMAIN r.geom THEN r.geom[name] ELSE r[name]

RECURSIVE BuildVector(_, _, _)
BuildVector(r, ops, acc) ==
    IF ops = <<>> THEN [raised |-> FALSE, vec |-> acc]
    ELSE LET x == FieldOf(r, Head(ops).name)
         IN  IF Head(ops).op = "extend"
             THEN IF x.t = "list"
                  THEN BuildVector(r, Tail(ops),
                           acc \o [i \in 1..Len(x.v) |-> Num(x.v[i])])
                  ELSE [raised |-> TRUE, vec |-> acc]
             ELSE BuildVector(r, Tail(ops), Append(acc, x))

BaseFace_vector ==
    <<Ext("uv_bounds"), Ext("center"), App("area"), App("tolerance"),
      App("natural_restriction"), App("orientation")>>

Face_get_feature_vector(r) == BuildVector(r, BaseFace_vector \o r.vector, <<>>)


(***************************************************************************)
(* GeometryType (utils/constants.py): the closed set of kind names.        *)
(***************************************************************************)
EdgeKinds ==
    {"Line", "Circle", "Ellipse", "Parabola", "Hyperbola", "BSplineCurve",
     "BezierCurve", "OffsetCurve", "OtherCurve"}

FaceKinds ==
    {"Plane", "Cylinder", "Cone", "Sphere", "Torus", "BSplineSurface",
     "BezierSurface", "SurfaceOfRevolution", "SurfaceOfExtrusion",
     "OffsetSurface", "OtherSurface"}

(***************************************************************************)
(* EdgeRole and Continuity codes (utils/constants.py).                     *)
(***************************************************************************)
FREE == 0
BOUNDARY == 1
INTERIOR == 2
NON_MANIFOLD == 3

\* the variant without the three-or-more case
from_num_faces_two_or_more(num_faces) ==
    IF num_faces = 0 THEN FREE
    ELSE IF num_faces = 1 THEN BOUNDARY
    ELSE INTERIOR

from_num_faces(num_faces) ==
    IF num_faces = 0 THEN FREE
    ELSE IF num_faces = 1 THEN BOUNDARY
    ELSE IF num_faces = 2 THEN INTERIOR
    ELSE NON_MANIFOLD

Continuity_NONE == -1

ContinuityTags ==
    {"GeomAbs_C0", "GeomAbs_G1", "GeomAbs_C1", "GeomAbs_G2", "GeomAbs_C2",
     "GeomAbs_C3", "GeomAbs_CN"}

from_geomabs(geomabs_continuity) ==
    CASE geomabs_continuity = "GeomAbs_C0" -> 0
      [] geomabs_continuity = "GeomAbs_G1" -> 1
      [] geomabs_continuity = "GeomAbs_C1" -> 2
      [] geomabs_continuity = "GeomAbs_G2" -> 3
      [] geomabs_continuity = "GeomAbs_C2" -> 4
      [] geomabs_continuity = "GeomAbs_C3" -> 5
      [] geomabs_continuity = "GeomAbs_CN" -> 6
      [] OTHER -> Continuity_NONE

(***************************************************************************)
(* The kernel's answers for one edge: its curve type tag, the accessors    *)
(* that throw for it, and its continuity between two faces.                *)
(***************************************************************************)
CurveTags ==
    {"GeomAbs_Line", "GeomAbs_Circle", "GeomAbs_Ellipse", "GeomAbs_Parabola",
     "GeomAbs_Hyperbola", "GeomAbs_BSplineCurve", "GeomAbs_BezierCurve",
     "GeomAbs_OffsetCurve", "GeomAbs_OtherCurve", "GeomAbs_unrecognised"}

EdgeAccessors ==
    {"BRepAdaptor_Curve", "GetType", "Parameter", "Precision", "Continuity",
     "Topology", "LinearProperties", "Geometry"}

(***************************************************************************)
(* The kind-specific tier of each edge class.                              *)
(***************************************************************************)
Line(kb) ==
    [type |-> "Line",
     geom |-> IF Throws(kb, "Geometry") THEN [direction |-> Sentinel]
              ELSE [direction |-> List(<<60, 61, 62>>)],
     error |-> Throws(kb, "Geometry"),
     vector |-> <<Ext("direction")>>]

Circle(kb) ==
    [type |-> "Circle",
     geom |-> IF Throws(kb, "Geometry") \/ Throws(kb, "Parameter")
              THEN [radius |-> Sentinel, angle_span |-> Sentinel,
                    is_full_circle |-> Sentinel]
              ELSE [radius |-> Num(50), angle_span |-> Num(1),
                    is_full_circle |-> Num(0)],
     error |-> Throws(kb, "Geometry") \/ Throws(kb, "Parameter"),
     vector |-> <<App("radius"), App("angle_span"), App("is_full_circle")>>]

\* core/geometric_edges/ellipse.py is not among the sources: by analogy with
\* Hyperbola, the other conic with two radii
Ellipse(kb) ==
    [type |-> "Ellipse",
     geom |-> IF Throws(kb, "Geometry")
              THEN [major_radius |-> Sentinel, minor_radius |-> Sentinel,
                    eccentricity |-> Sentinel]
              ELSE [major_radius |-> Num(50), minor_radius |-> Num(51),
                    eccentricity |-> Num(52)],
     error |-> Throws(kb, "Geometry"),
     vector |-> <<App("major_radius"), App("minor_radius"), App("eccentricity")>>]

Parabola(kb) ==
    [type |-> "Parabola",
     geom |-> IF Throws(kb, "Geometry") THEN [focal_length |-> Sentinel]
              ELSE [focal_length |-> Num(50)],
     error |-> Throws(kb, "Geometry"),
     vector |-> <<App("focal_length")>>]

Hyperbola(kb) ==
    [type |-> "Hyperbola",
     geom |-> IF Throws(kb, "Geometry")
              THEN [major_radius |-> Sentinel, minor_radius |-> Sentinel,
                    eccentricity |-> Sentinel]
              ELSE [major_radius |-> Num(50), minor_radius |-> Num(51),
                    eccentricity |-> Num(52)],
     error |-> Throws(kb, "Geometry"),
     vector |-> <<App("major_radius"), App("minor_radius"), App("eccentricity")>>]

BSpline(kb) ==
    [type |-> "BSplineCurve",
     geom |-> IF Throws(kb, "Geometry")
              THEN [degree |-> Sentinel, num_poles |-> Sentinel,
                    is_rational |-> Sentinel, is_periodic |-> Sentinel]
              ELSE [degree |-> Num(3), num_poles |-> Num(4),
                    is_rational |-> Num(0), is_periodic |-> Num(0)],
     error |-> Throws(kb, "Geometry"),
     vector |-> <<App("degree"), App("num_poles"), App("is_rational"),
                  App("is_periodic")>>]

Bezier(kb) ==
    [type |-> "BezierCurve",
     geom |-> IF Throws(kb, "Geometry")
              THEN [degree |-> Sentinel, num_poles |-> Sentinel, is_rational |-> Sentinel]
              ELSE [degree |-> Num(3), num_poles |-> Num(4), is_rational |-> Num(0)],
     error |-> Throws(kb, "Geometry"),
     vector |-> <<App("degree"), App("num_poles"), App("is_rational")>>]

OtherCurve(curve_type_name) ==
    [type |-> curve_type_name, geom |-> <<>>, error |-> FALSE, vector |-> <<>>]

(***************************************************************************)
(* EdgeExtractor._create_edge_object                                       *)
(***************************************************************************)
_create_edge_object(curve_type, kb) ==
    CASE curve_type = "GeomAbs_Line"         -> Line(kb)
      [] curve_type = "GeomAbs_Circle"       -> Circle(kb)
      [] curve_type = "GeomAbs_Ellipse"      -> Ellipse(kb)
      [] curve_type = "GeomAbs_Parabola"     -> Parabola(kb)
      [] curve_type = "GeomAbs_Hyperbola"    -> Hyperbola(kb)
      [] curve_type = "GeomAbs_BSplineCurve" -> BSpline(kb)
      [] curve_type = "GeomAbs_BezierCurve"  -> Bezier(kb)
      [] curve_type = "GeomAbs_OffsetCurve"  -> OtherCurve("OffsetCurve")
      [] OTHER                               -> OtherCurve("OtherCurve")

(***************************************************************************)
(* BaseEdge.__init__ (for a non-empty connected_faces: connected_faces[0]  *)
(* of an empty list raises IndexError).                                    *)
(***************************************************************************)
BaseEdge(edge, edge_id, connected_faces, face_objects, cls) ==
    [edge |-> edge, edge_id |-> edge_id, connected_faces |-> connected_faces,
     src_node_id |-> connected_faces[1],
     dst_node_id |-> connected_faces[Len(connected_faces)],
     face_objects |-> face_objects, type |-> NoneType,
     parameter_range |-> None, tolerance |-> None, same_parameter |-> None,
     same_range |-> None, edge_role |-> None, continuity |-> None,
     is_closed |-> None, is_degenerated |-> None, orientation |-> None,
     length |-> None, error |-> FALSE, geom |-> <<>>, vector |-> cls.vector]

Edge_extract_parameter_features(r, kb) ==
    IF Throws(kb, "Parameter")
    THEN [r EXCEPT !.parameter_range = Sentinel, !.error = TRUE]
    ELSE [r EXCEPT !.parameter_range = List(<<10, 11>>)]

Edge_extract_precision_features(r, kb) ==
    IF Throws(kb, "Precision")
    THEN [r EXCEPT !.tolerance = Sentinel, !.same_parameter = Sentinel,
                   !.same_range = Sentinel, !.error = TRUE]
    ELSE [r EXCEPT !.tolerance = Num(40), !.same_parameter = Num(1),
                   !.same_range = Num(1)]

\* BaseEdge._calculate_continuity: the code returned and whether it failed
Edge_calculate_continuity(r, kb) ==
    IF Len(r.face_objects) < 2
    THEN [code |-> Continuity_NONE, error |-> FALSE]
    ELSE IF Throws(kb, "Continuity")
    THEN [code |-> Continuity_NONE, error |-> TRUE]
    ELSE [code |-> from_geomabs(kb.cont), error |-> FALSE]

Edge_calculate_length(kb) ==
    IF Throws(kb, "LinearProperties")
    THEN [value |-> Sentinel, error |-> TRUE]
    ELSE [value |-> Num(30), error |-> FALSE]

Edge_extract_topology_features(r, kb) ==
    LET c  == Edge_calculate_continuity(r, kb)
        l  == Edge_calculate_length(kb)
        r1 == [r EXCEPT !.edge_role = Num(from_num_faces(Len(r.connected_faces))),
                        !.continuity = Num(c.code),
                        !.error = r.error \/ c.error]
        r2 == IF Throws(kb, "Topology")
              THEN [r1 EXCEPT !.is_closed = Sentinel, !.is_degenerated = Sentinel,
                              !.orientation = Sentinel, !.error = TRUE]
              ELSE [r1 EXCEPT !.is_closed = Num(0), !.is_degenerated = Num(0),
                              !.orientation = Num(from_topabs(r.edge.ori))]
    IN  [r2 EXCEPT !.length = l.value, !.error = r2.error \/ l.error]

Edge_extract_base_features(r, cls, kb) ==
    Edge_extract_topology_features(
        Edge_extract_precision_features(
            Edge_extract_parameter_features([r EXCEPT !.type = cls.type], kb),
            kb),
        kb)

Edge_extract_all_features(r, cls, kb) ==
    LET b == Edge_extract_base_features(r, cls, kb)
    IN  [b EXCEPT !.geom = cls.geom, !.error = b.error \/ cls.error]

(***************************************************************************)
(* EdgeExtractor.extract_edge_object.  Whatever raised in the try block,   *)
(* the except branch builds the fallback OtherCurve from the same          *)
(* arguments: its constructor asks for the adaptor and connected_faces[0]  *)
(* again.  face_objects is EdgeExtractor.face_objects_cache, which the     *)
(* caller sets with set_face_objects right before every call and nothing   *)
(* else reads.                                                             *)
(***************************************************************************)
extract_edge_object(edge, edge_id, connected_face_ids, face_objects, kb) ==
    IF Throws(kb, "BRepAdaptor_Curve") \/ connected_face_ids = <<>>
    THEN [raised |-> TRUE, rec |-> NoRecord]
    ELSE IF Throws(kb, "GetType")
    THEN [raised |-> FALSE,
          rec |-> BaseEdge(edge, edge_id, connected_face_ids, face_objects,
                           OtherCurve("Unknown"))]
    ELSE LET cls == _create_edge_object(kb.tag, kb)
         IN  [raised |-> FALSE,
              rec |-> Edge_extract_all_features(
                          BaseEdge(edge, edge_id, connected_face_ids, face_objects, cls),
                          cls, kb)]

BaseEdge_vector ==
    <<Ext("parameter_range"), App("tolerance"), App("same_parameter"),
      App("same_range"), App("edge_role"), App("continuity"), App("is_closed"),
      App("is_degenerated"), App("orientation"), App("length")>>

Edge_get_feature_vector(r) == BuildVector(r, BaseEdge_vector \o r.vector, <<>>)

(***************************************************************************)
(* The shape of a file.  nf faces and ne edges; bound[e] is the set of     *)
(* faces edge e bounds; dup: the explorer meets the first face a second    *)
(* time, through a reversed wrapper; fkb / ekb: the kernel's answers, the  *)
(* same whenever the kernel is asked about the same entity.                *)
(***************************************************************************)
MaxFaces == 3
MaxEdges == 2

NoShape == [nf |-> 0, ne |-> 0, dup |-> FALSE, bound |-> <<>>, fkb |-> <<>>, ekb |-> <<>>]

FaceKB(tag, fails) == [tag |-> tag, fails |-> fails, cont |-> "GeomAbs_C0"]

EdgeKB(tag, fails, cont) == [tag |-> tag, fails |-> fails, cont |-> cont]

DefaultFaceKB == FaceKB("GeomAbs_Plane", {})

DefaultEdgeKB == EdgeKB("GeomAbs_Line", {}, "GeomAbs_C0")

\* the answers that differ from the default; at most one entity of a shape has one
FaceDeviations ==
    {FaceKB("GeomAbs_Cylinder", {}), FaceKB("GeomAbs_Plane", {"SurfaceProperties"}),
     FaceKB("GeomAbs_unrecognised", {}), FaceKB("GeomAbs_Plane", {"GetType"}),
     FaceKB("GeomAbs_Plane", {"BRepAdaptor_Surface"})}

EdgeDeviations ==
    {EdgeKB("GeomAbs_Circle", {"LinearProperties"}, "GeomAbs_G1"),
     EdgeKB("GeomAbs_Line", {"Parameter"}, "GeomAbs_C1"),
     EdgeKB("GeomAbs_Line", {"GetType"}, "GeomAbs_C0"),
     EdgeKB("GeomAbs_Line", {"BRepAdaptor_Curve"}, "GeomAbs_C0")}

\* the faces an edge may bound: none (a free edge), the first face alone (a
\* boundary edge), two neighbouring faces (an interior edge), or the first
\* three or more faces (a non-manifold edge)
BoundSets(n) ==
    {{}} \cup (IF n >= 1 THEN {{1}} ELSE {}) \cup {{i, i + 1} : i \in 1..(n - 1)}
         \cup {1..k : k \in 3..n}

Kernels(nf, ne) ==
    LET f0 == [i \in 1..nf |-> DefaultFaceKB]
        e0 == [j \in 1..ne |-> DefaultEdgeKB]
    IN  {[fkb |-> f0, ekb |-> e0]}
        \cup {[fkb |-> [f0 EXCEPT ![i] = kb], ekb |-> e0] :
                  i \in 1..nf, kb \in FaceDeviations}
        \cup {[fkb |-> f0, ekb |-> [e0 EXCEPT ![j] = kb]] :
                  j \in 1..ne, kb \in EdgeDeviations}

\* edges are numbered so that their bounding sets come in a fixed order
BoundRank(S, nf) ==
    IF S = {} THEN 0
    ELSE (nf + 1) * (CHOOSE a \in S : \A x \in S : a <= x)
         + (CHOOSE b \in S : \A x \in S : x <= b)

Bounds(nf, ne) ==
    {x \in [1..ne -> BoundSets(nf)] :
        \A i \in 1..ne, j \in 1..ne :
            i < j => BoundRank(x[i], nf) <= BoundRank(x[j], nf)}

ShapesOf(nf, ne) ==
    {[nf |-> nf, ne |-> ne, dup |-> FALSE, bound |-> b, fkb |-> k.fkb, ekb |-> k.ekb] :
        b \in Bounds(nf, ne), k \in Kernels(nf, ne)}
    \cup {[nf |-> nf, ne |-> ne, dup |-> TRUE, bound |-> b,
           fkb |-> [i \in 1..nf |-> DefaultFaceKB],
           ekb |-> [j \in 1..ne |-> DefaultEdgeKB]] :
              b \in (IF nf = 0 THEN {} ELSE Bounds(nf, ne))}

Shapes == UNION {ShapesOf(nf, ne) : nf \in 0..MaxFaces, ne \in 0..MaxEdges}

RECURSIVE AscSeq(_)
AscSeq(S) ==
    IF S = {} THEN <<>>
    ELSE LET m == CHOOSE x \in S : \A y \in S : x <= y
         IN  <<m>> \o AscSeq(S \ {m})

\* the variant in which the face traversal stops after the first face
FaceVisits_first_only(sh) ==
    IF sh.nf = 0 THEN <<>> ELSE <<Shape("cur", 1, "FORWARD")>>

\* TopExp_Explorer(shape, TopAbs_FACE): the wrappers met, in order
FaceVisits(sh) ==
    [i \in 1..sh.nf |-> Shape("cur", i, "FORWARD")]
    \o (IF sh.dup THEN <<Shape("cur", 1, "REVERSED")>> ELSE <<>>)

\* the edges met below one face; an edge is forward in its first face
EdgesBelow(sh, f) ==
    LET es == AscSeq({e \in 1..sh.ne : f.ent \in sh.bound[e]})
    IN  [i \in 1..Len(es) |->
            Shape("cur", es[i],
                  IF f.ori = "FORWARD" /\ \A g \in sh.bound[es[i]] : f.ent <= g
                  THEN "FORWARD" ELSE "REVERSED")]

RECURSIVE EdgesBelowAll(_, _)
EdgesBelowAll(sh, fs) ==
    IF fs = <<>> THEN <<>> ELSE EdgesBelow(sh, Head(fs)) \o EdgesBelowAll(sh, Tail(fs))

\* TopExp_Explorer(shape, TopAbs_EDGE): once per face an edge bounds, then the
\* edges that bound no face
EdgeVisits(sh) ==
    LET free == AscSeq({e \in 1..sh.ne : sh.bound[e] = {}})
    IN  EdgesBelowAll(sh, FaceVisits(sh))
        \o [i \in 1..Len(free) |-> Shape("cur", free[i], "FORWARD")]

\* topexp.MapShapesAndAncestors: the faces an edge bounds, in traversal order
_build_edge_face_mapping(sh, edge) ==
    LET fs == AscSeq(sh.bound[edge.ent])
    IN  [i \in 1..Len(fs) |-> Shape("cur", fs[i], "FORWARD")]

\* the variant that keeps the first face only
_get_connected_faces_first_only(face_list) ==
    IF Len(face_list) > 0 THEN <<face_list[1]>> ELSE <<>>

_get_connected_faces_from_edge(face_list) ==
    IF Len(face_list) > 0
    THEN <<face_list[1]>>
         \o (IF Len(face_list) > 1 THEN <<face_list[Len(face_list)]>> ELSE <<>>)
    ELSE <<>>


(***************************************************************************)
(* extract_edges_objects, lines 138-142: the ids of the connected faces,   *)
(* each asked of the registry (which allocates one for a face it has not   *)
(* seen).                                                                  *)
(***************************************************************************)
RECURSIVE ConnectedFaceIds(_, _, _)
ConnectedFaceIds(map, faces, ids) ==
    IF faces = <<>> THEN [ids |-> ids, map |-> map]
    ELSE LET r == get_face_id(map, Head(faces))
         IN  ConnectedFaceIds(r.map, Tail(faces), Append(ids, r.id))

\* the TShapes of an earlier file are none of those of the file loaded now:
\* which of them an entry was does not matter any more
Aged(map) == [i \in DOMAIN map |-> Shape("old", 0, "FORWARD")]

\* the variant that clears the edge map only
IDManager_reset_keeps_faces(maps) == [face |-> maps.face, edge |-> <<>>]

IDManager_reset(maps) == [face |-> Clear(maps.face), edge |-> Clear(maps.edge)]

(***************************************************************************)
(* HeterogeneousGraph (data_preprocess_step/src/graph.py).  nodes is the   *)
(* dict node.id -> node as the sequence of its values in key order (a key  *)
(* assigned again keeps its place); edges is the list of accepted edges.   *)
(***************************************************************************)
NodeKeys(ns) == {ns[i].id : i \in DOMAIN ns}

NodeAt(ns, id) == ns[CHOOSE i \in DOMAIN ns : ns[i].id = id]

add_node(ns, node) ==
    IF node.id \in NodeKeys(ns)
    THEN [i \in DOMAIN ns |-> IF ns[i].id = node.id THEN node ELSE ns[i]]
    ELSE Append(ns, node)

Warning(edge) == [src |-> edge.src_node_id, dst |-> edge.dst_node_id]

\* the variant that appends whatever the endpoints are
add_edge_unchecked(ns, es, edge) == [edges |-> Append(es, edge), printed |-> None]

\* the variant that tests the source id only
add_edge_src_only(ns, es, edge) ==
    IF edge.src_node_id \in NodeKeys(ns)
    THEN [edges |-> Append(es, edge), printed |-> None]
    ELSE [edges |-> es, printed |-> Warning(edge)]

add_edge(ns, es, edge) ==
    IF edge.src_node_id \in NodeKeys(ns) /\ edge.dst_node_id \in NodeKeys(ns)
    THEN [edges |-> Append(es, edge), printed |-> None]
    ELSE [edges |-> es, printed |-> Warning(edge)]

(***************************************************************************)
(* build_dgl_graph.  The graph made is a record: ntypes and num_nodes as   *)
(* dgl.heterograph infers them from the index arrays of the relations,     *)
(* ndata[t] the rows of node type t, rel[ce] the entries of relation ce in *)
(* order (source index, destination index, feature row, and the edge the   *)
(* entry came from).                                                       *)
(***************************************************************************)
NoGraph == [made |-> FALSE]

\* the variant that lists the nodes of a type last added first
nodes_by_type_reversed(ns, ntype) ==
    LET l == SelectSeq(ns, LAMBDA n : n.type = ntype)
    IN  [i \in DOMAIN l |-> l[Len(l) + 1 - i]]

\* lines 43-49: the nodes of one type in dict order; the local id is the
\* position in that list, counted from 0
nodes_by_type(ns, ntype) == SelectSeq(ns, LAMBDA n : n.type = ntype)

\* the variant that numbers the nodes over all types
node_type_id_mapping_global(ns, ntype, id) == (CHOOSE i \in DOMAIN ns : ns[i].id = id) - 1

node_type_id_mapping(ns, ntype, id) ==
    LET l == nodes_by_type(ns, ntype)
    IN  (CHOOSE i \in DOMAIN l : l[i].id = id) - 1

NodeTypes(ns) == {ns[i].type : i \in DOMAIN ns}

canonical_etype(ns, edge) ==
    <<NodeAt(ns, edge.src_node_id).type, edge.type, NodeAt(ns, edge.dst_node_id).type>>

\* the variant that adds, after the entries of a relation, the reverse of
\* every entry of the opposite relation
hetero_graph_data_with_reverse(ns, es) ==
    LET Rev(ce) == <<ce[3], ce[2], ce[1]>>
        fwd == {canonical_etype(ns, es[i]) : i \in DOMAIN es}
        Entry(e, back) ==
            LET s == node_type_id_mapping(ns, NodeAt(ns, e.src_node_id).type, e.src_node_id)
                d == node_type_id_mapping(ns, NodeAt(ns, e.dst_node_id).type, e.dst_node_id)
            IN  [src |-> IF back THEN d ELSE s, dst |-> IF back THEN s ELSE d,
                 x |-> Edge_get_feature_vector(e).vec, edge_id |-> e.edge_id]
    IN  [ce \in fwd \cup {Rev(c) : c \in fwd} |->
            LET l == SelectSeq(es, LAMBDA e : canonical_etype(ns, e) = ce)
                b == SelectSeq(es, LAMBDA e : Rev(canonical_etype(ns, e)) = ce)
            IN  [i \in DOMAIN l |-> Entry(l[i], FALSE)]
                \o [i \in DOMAIN b |-> Entry(b[i], TRUE)]]

\* lines 56-71: one entry per edge of the list, appended to its relation
hetero_graph_data(ns, es) ==
    LET ces == {canonical_etype(ns, es[i]) : i \in DOMAIN es}
        Entry(e) ==
            [src |-> node_type_id_mapping(ns, NodeAt(ns, e.src_node_id).type, e.src_node_id),
             dst |-> node_type_id_mapping(ns, NodeAt(ns, e.dst_node_id).type, e.dst_node_id),
             x   |-> Edge_get_feature_vector(e).vec,
             edge_id |-> e.edge_id]
    IN  [ce \in ces |->
            LET l == SelectSeq(es, LAMBDA e : canonical_etype(ns, e) = ce)
            IN  [i \in DOMAIN l |-> Entry(l[i])]]

\* lines 56-71 list by list: per relation the source indices, the destination
\* indices and the feature rows, each appended to in the iteration of an edge
\* (lines 68-70); of is history, the edge of each iteration
RECURSIVE edge_loop(_, _, _)
edge_loop(ns, es, acc) ==
    IF es = <<>> THEN acc
    ELSE LET edge == Head(es)
             src_node == NodeAt(ns, edge.src_node_id)
             dst_node == NodeAt(ns, edge.dst_node_id)
             ce == canonical_etype(ns, edge)
             old == IF ce \in DOMAIN acc THEN acc[ce]
                    ELSE [src |-> <<>>, dst |-> <<>>, feat |-> <<>>, of |-> <<>>]
             new == [src  |-> Append(old.src, node_type_id_mapping(ns, src_node.type,
                                                                   edge.src_node_id)),
                     dst  |-> Append(old.dst, node_type_id_mapping(ns, dst_node.type,
                                                                   edge.dst_node_id)),
                     feat |-> Append(old.feat, Edge_get_feature_vector(edge).vec),
                     of   |-> Append(old.of, edge)]
         IN  edge_loop(ns, Tail(es),
                       [c \in DOMAIN acc \cup {ce} |-> IF c = ce THEN new ELSE acc[c]])

Max(S) == CHOOSE x \in S : \A y \in S : y <= x

\* dgl.heterograph(data_dict): the node types are those named by a relation,
\* each with one node more than the largest index the relations hold for it
heterograph(data) ==
    LET ces == DOMAIN data
        nts == {ce[1] : ce \in ces} \cup {ce[3] : ce \in ces}
        Ix(t) == UNION {{data[ce][i].src : i \in DOMAIN data[ce]} : ce \in {c \in ces : c[1] = t}}
                 \cup UNION {{data[ce][i].dst : i \in DOMAIN data[ce]} : ce \in {c \in ces : c[3] = t}}
    IN  [made |-> TRUE, ntypes |-> nts,
         num_nodes |-> [t \in nts |-> Max(Ix(t)) + 1],
         ndata |-> [t \in {} |-> <<>>],
         rel |-> data]

NoException == "none"

\* lines 38-98, after the test of line 35
build_from_groups(ns, es) ==
    IF \E i \in DOMAIN ns : Face_get_feature_vector(ns[i]).raised
    THEN [raised |-> "TypeError", graph |-> NoGraph]
    ELSE IF \E i \in DOMAIN es : ~({es[i].src_node_id, es[i].dst_node_id} \subseteq NodeKeys(ns))
    THEN [raised |-> "KeyError", graph |-> NoGraph]
    ELSE IF \E i \in DOMAIN es : Edge_get_feature_vector(es[i]).raised
    THEN [raised |-> "TypeError", graph |-> NoGraph]
    ELSE LET g == heterograph(hetero_graph_data(ns, es))
             feat == [t \in NodeTypes(ns) |->
                         LET l == nodes_by_type(ns, t)
                         IN  [i \in DOMAIN l |-> Face_get_feature_vector(l[i]).vec]]
         IN  \* lines 85-89: a type the graph has not, or a number of rows
             \* that is not its number of nodes, is refused by DGL
             IF \E t \in NodeTypes(ns) :
                    t \notin g.ntypes \/ Len(feat[t]) # g.num_nodes[t]
             THEN [raised |-> "DGLError", graph |-> g]
             ELSE [raised |-> NoException, graph |-> [g EXCEPT !.ndata = feat]]

\* the variant without the test of line 35
build_dgl_graph_unguarded(ns, es) == build_from_groups(ns, es)

build_dgl_graph(ns, es) ==
    IF ns = <<>>
    THEN [raised |-> "ValueError", graph |-> NoGraph]
    ELSE build_from_groups(ns, es)

(***************************************************************************)
(* FeatureExtractor.analyze_file, in steps: the load and the reset, one    *)
(* step per iteration of each traversal loop, and the return.              *)
(***************************************************************************)
RegIdle == calls = <<>>

NoRun == [n |-> 0]

NoHom == [n |-> 0]

NoBatch == [phase |-> "off"]

NoUi == [pc |-> "off"]

ExIdle ==
    /\ exIn = [kind |-> "none"]
    /\ exOut = [raised |-> FALSE, rec |-> NoRecord]
    /\ exPc = "off"
    /\ prev = NoRun
    /\ hom = NoHom
    /\ batch = NoBatch
    /\ ui = NoUi

NoResult == [graph |-> NoGraph, status |-> "none", error |-> NoException]

GraphIdle ==
    /\ nodes = <<>>
    /\ edges = <<>>
    /\ dgl_graph = [raised |-> NoException, graph |-> NoGraph]
    /\ gLast = [op |-> "none", arg |-> None, printed |-> None, n |-> 0]
    /\ ret = NoResult

Init ==
    /\ face_map = <<>>
    /\ edge_map = <<>>
    /\ pc = "idle"
    /\ shape = NoShape
    /\ fpos = 1
    /\ epos = 1
    /\ processed_faces = {}
    /\ processed_edges = {}
    /\ faces_objects = <<>>
    /\ edges_obj = <<>>
    /\ dropped = {}
    /\ stale = FALSE
    /\ RegIdle
    /\ ExIdle
    /\ GraphIdle

Returned == pc \in {"done", "raised", "load_failed"}

\* analyze_file has returned or raised: its locals and its result are the
\* caller's; the FeatureExtractor keeps its id_manager and its edge_extractor
ReturnToCaller ==
    /\ Returned \/ pc \in {"graph", "built", "returned"}
    /\ pc' = "idle"
    /\ shape' = NoShape
    /\ face_map' = Aged(face_map)
    /\ edge_map' = Aged(edge_map)
    /\ fpos' = 1
    /\ epos' = 1
    /\ processed_faces' = {}
    /\ processed_edges' = {}
    /\ faces_objects' = <<>>
    /\ edges_obj' = <<>>
    /\ dropped' = {}
    /\ stale' = FALSE
    /\ nodes' = <<>>
    /\ edges' = <<>>
    /\ dgl_graph' = [raised |-> NoException, graph |-> NoGraph]
    /\ gLast' = [op |-> "none", arg |-> None, printed |-> None, n |-> 0]
    /\ ret' = NoResult
    /\ UNCHANGED <<calls, exVars, hom, batch, ui>>

Return == ReturnToCaller /\ UNCHANGED prev

\* loader.load raises: no shape, __analyze_shape is not entered
LoadFails ==
    /\ pc = "idle"
    /\ pc' = "load_failed"
    /\ UNCHANGED <<face_map, edge_map, shape, fpos, epos, processed_faces,
                   processed_edges, faces_objects, edges_obj, dropped, stale>>
    /\ UNCHANGED <<calls, auxVars, graphVars>>

\* loader.load, id_manager.reset(), and the entry of extract_faces_objects
AnalyzeShape(sh) ==
    /\ pc = "idle"
    /\ shape' = sh
    /\ LET m == IDManager_reset([face |-> face_map, edge |-> edge_map])
       IN  face_map' = m.face /\ edge_map' = m.edge
    /\ pc' = "faces"
    /\ fpos' = 1
    /\ epos' = 1
    /\ processed_faces' = {}
    /\ processed_edges' = {}
    /\ faces_objects' = <<>>
    /\ edges_obj' = <<>>
    /\ dropped' = {}
    /\ stale' = (Size(face_map) > 0 /\ Size(edge_map) > 0)
    /\ UNCHANGED <<calls, auxVars, graphVars>>

\* one iteration of the while loop of extract_faces_objects
FaceLoopStep ==
    /\ pc = "faces"
    /\ fpos <= Len(FaceVisits(shape))
    /\ LET face == FaceVisits(shape)[fpos]
           r    == get_face_id(face_map, face)
           res  == extract_face_object(face, r.id, shape.fkb[face.ent])
       IN  /\ face_map' = r.map
           /\ IF r.id \in processed_faces
              THEN /\ fpos' = fpos + 1
                   /\ UNCHANGED <<pc, processed_faces, faces_objects, dropped>>
              ELSE IF res.raised
              THEN /\ pc' = "raised"
                   /\ UNCHANGED <<fpos, processed_faces, faces_objects, dropped>>
              ELSE IF res.rec.type = "Unknown" \/ res.rec.error
              THEN \* continue: face_explorer.Next() is not reached
                   /\ dropped' = dropped \cup {res.rec}
                   /\ UNCHANGED <<pc, fpos, processed_faces, faces_objects>>
              ELSE /\ faces_objects' = Append(faces_objects, res.rec)
                   /\ processed_faces' = processed_faces \cup {r.id}
                   /\ fpos' = fpos + 1
                   /\ UNCHANGED <<pc, dropped>>
    /\ UNCHANGED <<edge_map, shape, epos, processed_edges, edges_obj>>
    /\ UNCHANGED <<stale, calls, auxVars, graphVars>>

\* face_explorer.More() is false: extract_edges_objects is entered
FaceLoopExit ==
    /\ pc = "faces"
    /\ fpos > Len(FaceVisits(shape))
    /\ pc' = "edges"
    /\ epos' = 1
    /\ processed_edges' = {}
    /\ UNCHANGED <<face_map, edge_map, shape, fpos, processed_faces, faces_objects,
                   edges_obj, dropped>>
    /\ UNCHANGED <<stale, calls, auxVars, graphVars>>

\* one iteration of the while loop of extract_edges_objects
EdgeLoopStep ==
    /\ pc = "edges"
    /\ epos <= Len(EdgeVisits(shape))
    /\ \E edge \in {EdgeVisits(shape)[epos]} :
       \E r \in {get_edge_id(edge_map, edge)},
          conn \in {_get_connected_faces_from_edge(_build_edge_face_mapping(shape, edge))} :
       \E c \in {ConnectedFaceIds(face_map, conn, <<>>)} :
       \E res \in {extract_edge_object(edge, r.id, c.ids, conn, shape.ekb[edge.ent])} :
           /\ edge_map' = r.map
           /\ IF r.id \in processed_edges
              THEN /\ epos' = epos + 1
                   /\ UNCHANGED <<pc, face_map, processed_edges, edges_obj, dropped>>
              ELSE /\ face_map' = c.map
                   /\ IF res.raised
                      THEN /\ pc' = "raised"
                           /\ UNCHANGED <<epos, processed_edges, edges_obj, dropped>>
                      ELSE IF res.rec.type = "Unknown"
                      THEN \* continue: edge_explorer.Next() is not reached
                           /\ dropped' = dropped \cup {res.rec}
                           /\ UNCHANGED <<pc, epos, processed_edges, edges_obj>>
                      ELSE /\ edges_obj' = Append(edges_obj, res.rec)
                           /\ processed_edges' = processed_edges \cup {r.id}
                           /\ epos' = epos + 1
                           /\ UNCHANGED <<pc, dropped>>
    /\ UNCHANGED <<shape, fpos, processed_faces, faces_objects>>
    /\ UNCHANGED <<stale, calls, auxVars, graphVars>>

\* edge_explorer.More() is false: the result {"edges", "nodes"} is returned
EdgeLoopExit ==
    /\ pc = "edges"
    /\ epos > Len(EdgeVisits(shape))
    /\ pc' = "done"
    /\ UNCHANGED <<face_map, edge_map, shape, fpos, epos, processed_faces,
                   processed_edges, faces_objects, edges_obj, dropped, stale>>
    /\ UNCHANGED <<calls, auxVars, graphVars>>

(***************************************************************************)
(* GraphBuilder.from_step after analyze_file, build_dgl_graph, and the     *)
(* return of process_step_to_graph (batch_graph_generator.py).             *)
(***************************************************************************)
RECURSIVE AddNodes(_, _)
AddNodes(ns, l) == IF l = <<>> THEN ns ELSE AddNodes(add_node(ns, Head(l)), Tail(l))

RECURSIVE AddEdges(_, _, _)
AddEdges(ns, acc, l) ==
    IF l = <<>> THEN acc
    ELSE LET r == add_edge(ns, acc.edges, Head(l))
         IN  AddEdges(ns, [edges |-> r.edges,
                           printed |-> IF r.printed = None THEN acc.printed
                                       ELSE Append(acc.printed, r.printed)],
                      Tail(l))

\* from_step, lines 17-26: a new graph, the nodes, then the edges
from_step ==
    /\ pc = "done"
    /\ pc' = "graph"
    /\ LET ns == AddNodes(<<>>, faces_objects)
           r  == AddEdges(ns, [edges |-> <<>>, printed |-> <<>>], edges_obj)
       IN  /\ nodes' = ns
           /\ edges' = r.edges
           /\ gLast' = [op |-> "from_step", printed |-> r.printed]
    /\ UNCHANGED <<dgl_graph, ret>>
    /\ UNCHANGED <<face_map, edge_map, shape, fpos, epos, processed_faces,
                   processed_edges, faces_objects, edges_obj, dropped, stale>>
    /\ UNCHANGED <<calls, auxVars>>

\* hetero_graph.build_dgl_graph()
BuildOfFile ==
    /\ pc = "graph"
    /\ pc' = "built"
    /\ dgl_graph' = build_dgl_graph(nodes, edges)
    /\ UNCHANGED <<nodes, edges, gLast, ret>>
    /\ UNCHANGED <<face_map, edge_map, shape, fpos, epos, processed_faces,
                   processed_edges, faces_objects, edges_obj, dropped, stale>>
    /\ UNCHANGED <<calls, auxVars>>

ErrorResult(e) == [graph |-> NoGraph, status |-> "error", error |-> e]

\* process_step_to_graph, lines 53-72: the graph and its metadata, or the
\* except branch for whatever was raised inside the try block
process_step_to_graph ==
    /\ pc \in {"built", "raised", "load_failed"}
    /\ pc' = "returned"
    /\ ret' = IF pc = "built"
              THEN IF dgl_graph.raised = NoException
                   THEN [graph |-> dgl_graph.graph, status |-> "success",
                         error |-> NoException]
                   ELSE ErrorResult(dgl_graph.raised)
              ELSE ErrorResult(pc)
    /\ UNCHANGED <<nodes, edges, dgl_graph, gLast>>
    /\ UNCHANGED <<face_map, edge_map, shape, fpos, epos, processed_faces,
                   processed_edges, faces_objects, edges_obj, dropped, stale>>
    /\ UNCHANGED <<calls, auxVars>>

\* process_step_to_graph, lines 41-47: the file does not exist
FileMissing ==
    /\ pc = "idle"
    /\ pc' = "returned"
    /\ ret' = ErrorResult("missing")
    /\ UNCHANGED <<nodes, edges, dgl_graph, gLast>>
    /\ UNCHANGED <<face_map, edge_map, shape, fpos, epos, processed_faces,
                   processed_edges, faces_objects, edges_obj, dropped, stale>>
    /\ UNCHANGED <<calls, auxVars>>

\* line 23 binds GraphBuilder to data_preprocess.graph_builder.GraphBuilder,
\* which has from_xml and no from_step: line 51 raises AttributeError inside
\* the try block.  (The actions above are the run with the GraphBuilder of
\* data_preprocess_step/graph_builder.py.)
NoFromStep ==
    /\ pc = "idle"
    /\ pc' = "returned"
    /\ ret' = ErrorResult("AttributeError")
    /\ UNCHANGED <<nodes, edges, dgl_graph, gLast>>
    /\ UNCHANGED <<face_map, edge_map, shape, fpos, epos, processed_faces,
                   processed_edges, faces_objects, edges_obj, dropped, stale>>
    /\ UNCHANGED <<calls, auxVars>>

Next ==
    \/ Return
    \/ LoadFails
    \/ pc = "idle" /\ \E sh \in Shapes : AnalyzeShape(sh)
    \/ FaceLoopStep
    \/ FaceLoopExit
    \/ EdgeLoopStep
    \/ EdgeLoopExit
    \/ from_step
    \/ BuildOfFile
    \/ process_step_to_graph
    \/ FileMissing
    \/ NoFromStep

Spec == Init /\ [][Next]_vars


(***************************************************************************)
(* The registry driven by an arbitrary client: any wrapper, any order.     *)
(***************************************************************************)
PipeIdle ==
    /\ pc = "off"
    /\ shape = NoShape
    /\ fpos = 1
    /\ epos = 1
    /\ processed_faces = {}
    /\ processed_edges = {}
    /\ faces_objects = <<>>
    /\ edges_obj = <<>>
    /\ dropped = {}
    /\ stale = FALSE

RegInit ==
    /\ face_map = <<>>
    /\ edge_map = <<>>
    /\ calls = <<>>
    /\ PipeIdle
    /\ ExIdle
    /\ GraphIdle

GetFaceIdCall(w) ==
    /\ Len(calls) < MaxCalls
    /\ LET r == get_face_id(face_map, w)
       IN  /\ face_map' = r.map
           /\ calls' = Append(calls, [kind |-> "face", arg |-> w, ret |-> r.id,
                                      before |-> face_count,
                                      after |-> Size(r.map)])
    /\ UNCHANGED <<edge_map, pipeVars, auxVars, graphVars>>

GetEdgeIdCall(w) ==
    /\ Len(calls) < MaxCalls
    /\ LET r == get_edge_id(edge_map, w)
       IN  /\ edge_map' = r.map
           /\ calls' = Append(calls, [kind |-> "edge", arg |-> w, ret |-> r.id,
                                      before |-> edge_count,
                                      after |-> Size(r.map)])
    /\ UNCHANGED <<face_map, pipeVars, auxVars, graphVars>>

ResetCall ==
    /\ LET m == IDManager_reset([face |-> face_map, edge |-> edge_map])
       IN  face_map' = m.face /\ edge_map' = m.edge
    /\ calls' = <<>>
    /\ UNCHANGED <<pipeVars, auxVars, graphVars>>

RegNext ==
    \/ \E w \in RegWrappers : GetFaceIdCall(w)
    \/ \E w \in RegWrappers : GetEdgeIdCall(w)
    \/ ResetCall

SpecReg == RegInit /\ [][RegNext]_vars

(***************************************************************************)
(* One extraction: extract_face_object or extract_edge_object applied to   *)
(* one entity, for every type tag and every set of throwing accessors.     *)
(* The edge's face ids and face objects come from one connected-face list, *)
(* as in extract_edges_objects.                                            *)
(***************************************************************************)
MaxConn == 4

\* the accessors that throw, among those that are called: nothing is asked of
\* an entity once its adaptor or its type tag could not be had
FaceFailSets ==
    {{"BRepAdaptor_Surface"}, {"GetType"}}
    \cup SUBSET (FaceAccessors \ {"BRepAdaptor_Surface", "GetType"})

EdgeFailSets ==
    {{"BRepAdaptor_Curve"}, {"GetType"}}
    \cup SUBSET (EdgeAccessors \ {"BRepAdaptor_Curve", "GetType"})

FaceInput(o, t, f) ==
    [kind |-> "face", entity |-> Shape("cur", 1, o), id |-> 0,
     kb |-> FaceKB(t, f), conn |-> <<>>, faces |-> <<>>]

EdgeInput(o, t, f, c, n) ==
    [kind |-> "edge", entity |-> Shape("cur", 1, o), id |-> 0,
     kb |-> EdgeKB(t, f, c), conn |-> [i \in 1..n |-> i - 1],
     faces |-> [i \in 1..n |-> Shape("cur", i, "FORWARD")]]

\* the kernel is asked for a continuity only between two faces
ContinuityAnswers(n) ==
    IF n < 2 THEN {"GeomAbs_C0"} ELSE ContinuityTags \cup {"GeomAbs_unrecognised"}

ExInit ==
    /\ face_map = <<>>
    /\ edge_map = <<>>
    /\ RegIdle
    /\ PipeIdle
    /\ \/ \E o \in Orientations, t \in SurfaceTags, f \in FaceFailSets :
              exIn = FaceInput(o, t, f)
       \/ \E o \in {"FORWARD", "REVERSED"}, t \in CurveTags, f \in EdgeFailSets,
             n \in 0..MaxConn :
              \E c \in ContinuityAnswers(n) : exIn = EdgeInput(o, t, f, c, n)
    /\ exOut = [raised |-> FALSE, rec |-> NoRecord]
    /\ exPc = "call"
    /\ prev = NoRun
    /\ hom = NoHom
    /\ batch = NoBatch
    /\ ui = NoUi
    /\ GraphIdle

ExtractFaceCall ==
    /\ exPc = "call"
    /\ exIn.kind = "face"
    /\ exOut' = extract_face_object(exIn.entity, exIn.id, exIn.kb)
    /\ exPc' = "returned"
    /\ UNCHANGED <<exIn, prev, hom, batch, ui, regVars, pipeVars, graphVars>>

ExtractEdgeCall ==
    /\ exPc = "call"
    /\ exIn.kind = "edge"
    /\ exOut' = extract_edge_object(exIn.entity, exIn.id, exIn.conn, exIn.faces, exIn.kb)
    /\ exPc' = "returned"
    /\ UNCHANGED <<exIn, prev, hom, batch, ui, regVars, pipeVars, graphVars>>

ExNext == ExtractFaceCall \/ ExtractEdgeCall

SpecExtract == ExInit /\ [][ExNext]_vars


(***************************************************************************)
(* The graph driven by an arbitrary client: add_node and add_edge in any   *)
(* order on faces and edges as the extractors return them, then            *)
(* build_dgl_graph.                                                        *)
(***************************************************************************)
MaxNodeId == 1
MaxGraphCalls == 4

GraphFaceTags == {"GeomAbs_Plane", "GeomAbs_Cylinder"}

GraphEdgeTags == {"GeomAbs_Line", "GeomAbs_Circle"}

\* a face record of a given id and surface type; faces of odd id are reversed,
\* so that two faces of a kind differ in a feature
GraphNode(id, tag) ==
    extract_face_object(Shape("cur", id + 1, IF id % 2 = 0 THEN "FORWARD" ELSE "REVERSED"),
                        id, FaceKB(tag, {})).rec

\* an edge between two face ids; its own id is the number of the pair
GraphEdge(src, dst, tag) ==
    extract_edge_object(Shape("cur", src * (MaxNodeId + 1) + dst + 1, "FORWARD"),
                        src * (MaxNodeId + 1) + dst, <<src, dst>>,
                        <<Shape("cur", src + 1, "FORWARD"), Shape("cur", dst + 1, "FORWARD")>>,
                        EdgeKB(tag, {}, "GeomAbs_C0")).rec

GraphInit ==
    /\ face_map = <<>>
    /\ edge_map = <<>>
    /\ RegIdle
    /\ PipeIdle
    /\ ExIdle
    /\ GraphIdle

GraphOpen == gLast.op # "build_dgl_graph" /\ gLast.n < MaxGraphCalls

AddNodeCall(node) ==
    /\ nodes' = add_node(nodes, node)
    /\ gLast' = [op |-> "add_node", arg |-> node, printed |-> None, n |-> gLast.n + 1]
    /\ UNCHANGED <<edges, dgl_graph, ret>>
    /\ UNCHANGED <<regVars, pipeVars, auxVars>>

AddEdgeCall(edge) ==
    /\ LET r == add_edge(nodes, edges, edge)
       IN  /\ edges' = r.edges
           /\ gLast' = [op |-> "add_edge", arg |-> edge, printed |-> r.printed,
                        n |-> gLast.n + 1]
    /\ UNCHANGED <<nodes, dgl_graph, ret>>
    /\ UNCHANGED <<regVars, pipeVars, auxVars>>

BuildCall ==
    /\ gLast.op # "build_dgl_graph"
    /\ dgl_graph' = build_dgl_graph(nodes, edges)
    /\ gLast' = [op |-> "build_dgl_graph", arg |-> None, printed |-> None, n |-> gLast.n]
    /\ UNCHANGED <<nodes, edges, ret>>
    /\ UNCHANGED <<regVars, pipeVars, auxVars>>

GraphNext ==
    \/ GraphOpen /\ \E id \in 0..MaxNodeId, t \in GraphFaceTags : AddNodeCall(GraphNode(id, t))
    \/ GraphOpen /\ \E s \in 0..MaxNodeId, d \in 0..MaxNodeId, t \in GraphEdgeTags :
                        AddEdgeCall(GraphEdge(s, d, t))
    \/ BuildCall

SpecGraph == GraphInit /\ [][GraphNext]_vars

(***************************************************************************)
(* The files of cube-like solids: 6 planar faces and 12 straight edges,    *)
(* each edge bounding 2 faces and any 2 faces that are not opposite        *)
(* sharing one edge; the solids differ in which faces the traversal meets  *)
(* as opposite ones.  One GraphBuilder takes file after file through       *)
(* from_step and build_dgl_graph.                                          *)
(***************************************************************************)
RECURSIVE ByBoundRank(_, _)
ByBoundRank(S, nf) ==
    IF S = {} THEN <<>>
    ELSE LET p == CHOOSE x \in S : \A y \in S : BoundRank(x, nf) <= BoundRank(y, nf)
         IN  <<p>> \o ByBoundRank(S \ {p}, nf)

CubeShapes ==
    LET pairs == {p \in SUBSET (1..6) : Cardinality(p) = 2}
        opposites == {m \in SUBSET pairs :
                         Cardinality(m) = 3 /\ UNION m = 1..6}
    IN  {[nf |-> 6, ne |-> 12, dup |-> FALSE, bound |-> ByBoundRank(pairs \ m, 6),
          fkb |-> [i \in 1..6 |-> DefaultFaceKB],
          ekb |-> [j \in 1..12 |-> DefaultEdgeKB]] : m \in opposites}

CubeNext ==
    \/ Return
    \/ pc = "idle" /\ \E sh \in CubeShapes : AnalyzeShape(sh)
    \/ FaceLoopStep
    \/ FaceLoopExit
    \/ EdgeLoopStep
    \/ EdgeLoopExit
    \/ from_step
    \/ BuildOfFile

SpecCube == Init /\ [][CubeNext]_vars

(***************************************************************************)
(* The same shape analysed twice: by one FeatureExtractor, or by a new one *)
(* (a new IDManager) the second time.  The kernel answers the same for the *)
(* same shape.                                                             *)
(***************************************************************************)
\* what a caller sees of a run: the exception or the records, in order
ResultOf(outcome, fs, es) ==
    [outcome |-> outcome,
     nodes |-> [i \in DOMAIN fs |->
                   [id |-> fs[i].id, type |-> fs[i].type,
                    vector |-> Face_get_feature_vector(fs[i])]],
     edges |-> [i \in DOMAIN es |->
                   [edge_id |-> es[i].edge_id, type |-> es[i].type,
                    src_node_id |-> es[i].src_node_id,
                    dst_node_id |-> es[i].dst_node_id,
                    vector |-> Edge_get_feature_vector(es[i])]]]

ReturnFirst ==
    /\ prev.n = 0
    /\ ReturnToCaller
    /\ prev' = [n |-> 1, shape |-> shape,
                result |-> ResultOf(pc, faces_objects, edges_obj)]

ReturnSecond ==
    /\ prev.n = 1
    /\ ReturnToCaller
    /\ prev' = [prev EXCEPT !.n = 2]

\* FeatureExtractor(): a new IDManager
NewFeatureExtractor ==
    /\ pc = "idle"
    /\ prev.n = 1
    /\ Size(face_map) + Size(edge_map) > 0
    /\ face_map' = <<>>
    /\ edge_map' = <<>>
    /\ UNCHANGED <<calls, pipeVars, auxVars, graphVars>>

TwiceNext ==
    \/ pc = "idle" /\ prev.n = 0 /\ \E sh \in Shapes : AnalyzeShape(sh)
    \/ prev.n = 1 /\ AnalyzeShape(prev.shape)
    \/ NewFeatureExtractor
    \/ FaceLoopStep
    \/ FaceLoopExit
    \/ EdgeLoopStep
    \/ EdgeLoopExit
    \/ ReturnFirst
    \/ ReturnSecond

SpecTwice == Init /\ [][TwiceNext]_vars

(***************************************************************************)
(* The homogenizer of the XML pipeline (data_preprocess/graph.py,          *)
(* feature_config.py, node.py, edge.py).  A feature name is the sequence   *)
(* of the code points of its characters, which is what sorted() compares.  *)
(* A tensor is the sequence of its rows.                                   *)
(***************************************************************************)
FeatureName ==
    [fillet_radius    |-> <<20498, 22278, 21322, 24452>>,              \* 倒圆半径
     chamfer_angle    |-> <<20498, 35282, 38754, 22841, 35282>>,       \* 倒角面夹角
     chamfer_width    |-> <<20498, 35282, 38754, 23485, 24230>>,       \* 倒角面宽度
     cylinder_radius  |-> <<22278, 26609, 38754, 21322, 24452>>,       \* 圆柱面半径
     torus_major      |-> <<22278, 29615, 38754, 20013, 24452>>,       \* 圆环面中径
     torus_minor      |-> <<22278, 29615, 38754, 23567, 24452>>,       \* 圆环面小径
     cone_half_angle  |-> <<22278, 38181, 21322, 38181, 35282>>,       \* 圆锥半锥角
     cone_radius      |-> <<22278, 38181, 38754, 21322, 24452>>,       \* 圆锥面半径
     minor_sweep      |-> <<23567, 24452, 32469, 20013, 24452, 19978, 24352, 35282>>,
                                                                       \* 小径绕中径上张角
     arc_degree       |-> <<24359, 24230>>,                            \* 弧度
     sphere_radius    |-> <<29699, 21322, 24452>>,                     \* 球半径
     torus_axis_angle |-> <<30456, 23545, 22278, 29615, 38754, 36724, 32447, 24352, 35282>>,
                                                                       \* 相对圆环面轴线张角
     axis_angle       |-> <<30456, 23545, 38754, 36724, 32447, 21253, 35282>>,
                                                                       \* 相对面轴线包角
     height           |-> <<39640, 24230>>]                            \* 高度

\* FeatureConfig.MAIN_FEATURES: the widths, in key order
MAIN_FEATURES == <<1, 1, 3, 3, 1>>

\* FeatureConfig.NODE_SPECIFIC_FEATURES: the keys of each type, in dict order
NODE_SPECIFIC_FEATURES ==
    [cylinder |-> <<FeatureName.cylinder_radius, FeatureName.height, FeatureName.axis_angle>>,
     fillet   |-> <<FeatureName.fillet_radius, FeatureName.arc_degree,
                    FeatureName.chamfer_angle, FeatureName.chamfer_width>>,
     torus    |-> <<FeatureName.torus_minor, FeatureName.torus_major, FeatureName.arc_degree,
                    FeatureName.minor_sweep, FeatureName.torus_axis_angle>>,
     cone     |-> <<FeatureName.cone_radius, FeatureName.cone_half_angle,
                    FeatureName.height, FeatureName.axis_angle>>,
     sphere   |-> <<FeatureName.sphere_radius, FeatureName.arc_degree>>]

ALL_NODE_TYPES ==
    {"plane", "extrude", "straight line face", "B_surface", "cylinder", "fillet",
     "torus", "cone", "sphere"}

RECURSIVE SumSeq(_)
SumSeq(s) == IF s = <<>> THEN 0 ELSE Head(s) + SumSeq(Tail(s))

get_main_feature_dim == SumSeq(MAIN_FEATURES)

\* str.__lt__: the first differing code point decides, a proper prefix is less
RECURSIVE StrLess(_, _)
StrLess(a, b) ==
    IF b = <<>> THEN FALSE
    ELSE IF a = <<>> THEN TRUE
    ELSE IF Head(a) # Head(b) THEN Head(a) < Head(b)
    ELSE StrLess(Tail(a), Tail(b))

RECURSIVE sorted(_)
sorted(S) ==
    IF S = {} THEN <<>>
    ELSE LET m == CHOOSE x \in S : \A y \in S : x = y \/ StrLess(x, y)
         IN  <<m>> \o sorted(S \ {m})

_collect_all_specific_features ==
    sorted(UNION {{NODE_SPECIFIC_FEATURES[t][i] : i \in DOMAIN NODE_SPECIFIC_FEATURES[t]} :
                      t \in DOMAIN NODE_SPECIFIC_FEATURES})

\* node.py: the kind-specific attributes get_feature_vector appends after the
\* main ones, each by the name of the parameter extract_features reads it from
NodeClassFields(ntype) ==
    CASE ntype = "cylinder" -> <<FeatureName.cylinder_radius, FeatureName.height,
                                 FeatureName.axis_angle>>
      [] ntype = "fillet"   -> <<FeatureName.fillet_radius, FeatureName.arc_degree,
                                 FeatureName.chamfer_angle, FeatureName.chamfer_width>>
      [] ntype = "torus"    -> <<FeatureName.torus_minor, FeatureName.torus_major,
                                 FeatureName.arc_degree, FeatureName.minor_sweep,
                                 FeatureName.torus_axis_angle>>
      [] ntype = "cone"     -> <<FeatureName.cone_radius, FeatureName.cone_half_angle,
                                 FeatureName.height, FeatureName.axis_angle>>
      [] ntype = "sphere"   -> <<FeatureName.sphere_radius, FeatureName.arc_degree>>
      [] OTHER              -> <<>>

\* the value a node of a file holds for a parameter: no two of its
\* parameters have the same, and none is 0
ParamValue(name, b) == b + SumSeq(name)

\* Node.get_feature_vector: the 9 main values, then the attributes of the class
Node_get_feature_vector(ntype, b) ==
    [i \in 1..get_main_feature_dim |-> b + i]
    \o [j \in DOMAIN NodeClassFields(ntype) |-> ParamValue(NodeClassFields(ntype)[j], b)]

\* ArcEdge / StraightEdge.get_feature_vector, and a vector of another width
Edge_vector(width) == [i \in 1..width |-> 200 + i]

Min(a, b) == IF a < b THEN a ELSE b

\* the variant that keeps every column where it is
_align_node_features_in_place(ntype, x) ==
    LET total_dim == get_main_feature_dim + Len(_collect_all_specific_features)
    IN  [r \in DOMAIN x |->
            [c \in 1..total_dim |-> IF c <= Len(x[r]) THEN x[r][c] ELSE 0]]

\* _align_node_features for one node type: x is self.dgl_graph.nodes[ntype].data['x']
_align_node_features(ntype, x) ==
    LET main_dim == get_main_feature_dim
        all_specific_features == _collect_all_specific_features
        total_dim == main_dim + Len(all_specific_features)
        current_dim == Len(x[1])
        main_feat_dim == Min(main_dim, current_dim)
        type_specific_features ==
            IF ntype \in DOMAIN NODE_SPECIFIC_FEATURES
            THEN NODE_SPECIFIC_FEATURES[ntype] ELSE <<>>
        \* the columns are counted from 1 here: feat_idx + 1 and global_idx + 1
        global_idx(j) ==
            main_dim + (CHOOSE i \in DOMAIN all_specific_features :
                            all_specific_features[i] = type_specific_features[j])
        Written(c) == {j \in DOMAIN type_specific_features :
                          global_idx(j) = c /\ main_dim + j <= current_dim}
    IN  [r \in DOMAIN x |->
            [c \in 1..total_dim |->
                IF Written(c) # {}
                THEN x[r][main_dim + (CHOOSE j \in Written(c) : TRUE)]
                ELSE IF c <= main_feat_dim THEN x[r][c] ELSE 0]]

target_edge_dim == 4

\* the variant that copies the leading fields of every kind
_align_edge_features_leading(edge_type, x) ==
    IF Len(x[1]) < target_edge_dim
    THEN [r \in DOMAIN x |->
             [c \in 1..target_edge_dim |-> IF c <= Len(x[r]) THEN x[r][c] ELSE 0]]
    ELSE x

\* _align_edge_features for one relation: x is its data['x']
_align_edge_features(edge_type, x) ==
    LET current_dim == Len(x[1])
    IN  IF current_dim < target_edge_dim
        THEN IF edge_type = "arc" /\ current_dim >= 4
             THEN [r \in DOMAIN x |-> [c \in 1..target_edge_dim |-> x[r][c]]]
             ELSE IF edge_type = "straight" /\ current_dim >= 2
             THEN [r \in DOMAIN x |->
                      [c \in 1..target_edge_dim |->
                          IF c = 1 THEN x[r][1] ELSE IF c = 4 THEN x[r][2] ELSE 0]]
             ELSE LET copy_dim == Min(current_dim, target_edge_dim)
                  IN  [r \in DOMAIN x |->
                          [c \in 1..target_edge_dim |->
                              IF c <= copy_dim THEN x[r][c] ELSE 0]]
        ELSE x

(***************************************************************************)
(* to_homogeneous on a built graph, called again and again.  The graph has *)
(* one node type, with the rows get_feature_vector gives, and one          *)
(* relation; its edge tensor is of any kind and width, those the builder   *)
(* makes (arc: 4, straight: 2) among them.                                 *)
(***************************************************************************)
MaxRows == 2
MaxEdgeWidth == 5
MaxHomCalls == 2

RowBases == {0, 100}

EdgeTypeNames == {"arc", "straight", "other"}

HomGraph(ntype, bs, etype, w) ==
    [ntype |-> ntype,
     x     |-> [r \in DOMAIN bs |-> Node_get_feature_vector(ntype, bs[r])],
     etype |-> etype,
     ex    |-> <<Edge_vector(w)>>]

HomInit ==
    /\ face_map = <<>>
    /\ edge_map = <<>>
    /\ RegIdle
    /\ PipeIdle
    /\ exIn = [kind |-> "none"]
    /\ exOut = [raised |-> FALSE, rec |-> NoRecord]
    /\ exPc = "off"
    /\ prev = NoRun
    /\ batch = NoBatch
    /\ ui = NoUi
    /\ GraphIdle
    /\ \E t \in ALL_NODE_TYPES, k \in 1..MaxRows, e \in EdgeTypeNames, w \in 1..MaxEdgeWidth :
          \E bs \in [1..k -> RowBases] :
              hom = [n |-> 0, built |-> HomGraph(t, bs, e, w),
                     before |-> HomGraph(t, bs, e, w), cur |-> HomGraph(t, bs, e, w)]

\* to_homogeneous, lines 104-111: both alignments, on the graph's own tensors
to_homogeneous ==
    /\ hom.n < MaxHomCalls
    /\ hom' = [hom EXCEPT
                 !.n = hom.n + 1,
                 !.before = hom.cur,
                 !.cur = [hom.cur EXCEPT
                            !.x = _align_node_features(hom.cur.ntype, hom.cur.x),
                            !.ex = _align_edge_features(hom.cur.etype, hom.cur.ex)]]
    /\ UNCHANGED <<regVars, pipeVars, exVars, prev, batch, ui, graphVars>>

HomNext == to_homogeneous

SpecHom == HomInit /\ [][HomNext]_vars

(***************************************************************************)
(* Properties of the identity registry, under SpecReg.                     *)
(***************************************************************************)
Kinds == {"face", "edge"}

CallsOf(kind) == {i \in 1..Len(calls) : calls[i].kind = kind}

\* the underlying entity of a wrapper, whatever its orientation
Entity(w) == <<w.file, w.ent>>

EntitiesSeen(kind, n) == {Entity(calls[i].arg) : i \in {k \in CallsOf(kind) : k <= n}}

CountOf(kind) == IF kind = "face" THEN face_count ELSE edge_count

\* C1: between two resets, two calls of get_face_id (or of get_edge_id) return
\* the same integer exactly when their arguments wrap the same underlying
\* entity: wrappers that differ only in orientation get one id, distinct
\* entities of one kind get different ids.
C1_SameEntitySameId ==
    \A kind \in Kinds : \A i, j \in CallsOf(kind) :
        (Entity(calls[i].arg) = Entity(calls[j].arg)) <=> (calls[i].ret = calls[j].ret)

C1_Witness ==
    \E i, j, k \in CallsOf("face") :
        /\ i < j /\ j < k
        /\ Entity(calls[i].arg) = Entity(calls[j].arg)
        /\ calls[i].arg.ori # calls[j].arg.ori
        /\ calls[i].ret = calls[j].ret
        /\ Entity(calls[k].arg) # Entity(calls[i].arg)
        /\ calls[k].ret # calls[i].ret

\* C2: after any sequence of calls since the last reset the ids handed out
\* for a kind are exactly 0..n-1 for the n distinct entities seen: the k-th
\* newly discovered entity gets k-1, a repeated lookup allocates nothing, and
\* face_count / edge_count is n.
C2_DenseIds ==
    \A kind \in Kinds :
        LET n == Cardinality(EntitiesSeen(kind, Len(calls)))
        IN  /\ {calls[i].ret : i \in CallsOf(kind)} = 0..(n - 1)
            /\ CountOf(kind) = n
            /\ \A i \in CallsOf(kind) :
                   LET seen == EntitiesSeen(kind, i - 1)
                   IN  /\ calls[i].before = Cardinality(seen)
                       /\ IF Entity(calls[i].arg) \in seen
                          THEN calls[i].after = calls[i].before
                          ELSE /\ calls[i].ret = Cardinality(seen)
                               /\ calls[i].after = calls[i].before + 1

C2_Witness ==
    /\ Len(calls) >= 3
    /\ \A i \in 1..3 : calls[i].kind = "face"
    /\ Entity(calls[2].arg) = Entity(calls[1].arg)
    /\ calls[2].after = calls[2].before
    /\ Entity(calls[3].arg) # Entity(calls[1].arg)
    /\ calls[1].ret = 0
    /\ calls[3].ret = 1
    /\ face_count = 2


(***************************************************************************)
(* Properties of the analysis of a file, under Spec.                       *)
(***************************************************************************)
Analysing == pc \in {"faces", "edges", "done", "raised"}

\* C3: every file analysis starts from an empty registry: once the analysis
\* of a file is under way the registry holds mappings of that file only, the
\* first face and the first edge met in the file have id 0, and every record
\* carries the id the registry holds for its entity now.
C3_FreshRegistryPerFile ==
    Analysing =>
        /\ \A i \in DOMAIN face_map : face_map[i].file = "cur"
        /\ \A i \in DOMAIN edge_map : edge_map[i].file = "cur"
        /\ face_map # <<>> /\ FaceVisits(shape) # <<>>
               => FindIndex(face_map, FaceVisits(shape)[1]) - 1 = 0
        /\ edge_map # <<>> => FindIndex(edge_map, EdgeVisits(shape)[1]) - 1 = 0
        /\ \A i \in DOMAIN faces_objects :
               faces_objects[i].id = FindIndex(face_map, faces_objects[i].face) - 1
        /\ \A i \in DOMAIN edges_obj :
               edges_obj[i].edge_id = FindIndex(edge_map, edges_obj[i].edge) - 1

C3_Witness ==
    /\ stale
    /\ pc = "done"
    /\ faces_objects # <<>> /\ faces_objects[1].id = 0
    /\ edges_obj # <<>> /\ edges_obj[1].edge_id = 0


\* C4: an entity on which some extraction step failed is still emitted: no
\* record whose error flag was raised is left out of the output lists.
C4_FlaggedEntitiesEmitted == \A r \in dropped : ~r.error

\* C9: the face-id list of every edge record is the ordered list of the ids
\* of all the faces that bound the edge in the shape-wide ancestor map (none
\* for a free edge, one, two, three or more), and the analysis does not stop
\* at an edge that bounds no face.
C9_AllBoundingFacesListed ==
    /\ \A i \in DOMAIN edges_obj :
           LET fs == _build_edge_face_mapping(shape, edges_obj[i].edge)
           IN  edges_obj[i].connected_faces
                   = [k \in 1..Len(fs) |-> FindIndex(face_map, fs[k]) - 1]
    /\ ~(/\ pc = "raised"
         /\ fpos > Len(FaceVisits(shape))
         /\ epos <= Len(EdgeVisits(shape))
         /\ shape.bound[EdgeVisits(shape)[epos].ent] = {}
         /\ ~Throws(shape.ekb[EdgeVisits(shape)[epos].ent], "BRepAdaptor_Curve"))

(***************************************************************************)
(* Properties of one extraction, under SpecExtract.                        *)
(***************************************************************************)
Extracted == exPc = "returned" /\ ~exOut.raised /\ exOut.rec.type # NoneType

\* what the same entity gives when no accessor throws
Unfailed ==
    IF exIn.kind = "face"
    THEN extract_face_object(exIn.entity, exIn.id, [exIn.kb EXCEPT !.fails = {}]).rec
    ELSE extract_edge_object(exIn.entity, exIn.id, exIn.conn, exIn.faces,
                             [exIn.kb EXCEPT !.fails = {}]).rec

\* the accessors each base-tier field is read through, and the field's width
BaseFields ==
    IF exIn.kind = "face"
    THEN {[name |-> "uv_bounds", width |-> 4, reads |-> {"UVParameter"}],
          [name |-> "area", width |-> 0, reads |-> {"SurfaceProperties"}],
          [name |-> "center", width |-> 3, reads |-> {"UVParameter", "Value"}],
          [name |-> "tolerance", width |-> 0, reads |-> {"Tolerance"}],
          [name |-> "natural_restriction", width |-> 0, reads |-> {"NaturalRestriction"}],
          [name |-> "orientation", width |-> 0, reads |-> {"NaturalRestriction"}]}
    ELSE {[name |-> "parameter_range", width |-> 2, reads |-> {"Parameter"}],
          [name |-> "tolerance", width |-> 0, reads |-> {"Precision"}],
          [name |-> "same_parameter", width |-> 0, reads |-> {"Precision"}],
          [name |-> "same_range", width |-> 0, reads |-> {"Precision"}],
          [name |-> "edge_role", width |-> 0, reads |-> {}],
          [name |-> "continuity", width |-> 0,
           reads |-> IF Len(exIn.conn) >= 2 THEN {"Continuity"} ELSE {}],
          [name |-> "is_closed", width |-> 0, reads |-> {"Topology"}],
          [name |-> "is_degenerated", width |-> 0, reads |-> {"Topology"}],
          [name |-> "orientation", width |-> 0, reads |-> {"Topology"}],
          [name |-> "length", width |-> 0, reads |-> {"LinearProperties"}]}

SentinelOf(width) ==
    IF width = 0 THEN Num(-1) ELSE List([i \in 1..width |-> -1])

\* C5: when base-tier sub-steps fail, the error flag is true, every field of a
\* failed sub-step holds the sentinel (-1 for a scalar field, a vector of -1
\* of the field's width for a vector-valued field) and every other base-tier
\* field holds the value it has without the failure.
C5_FailedSubstepSentinels ==
    Extracted =>
        /\ (\E f \in BaseFields : f.reads \cap exIn.kb.fails # {}) => exOut.rec.error
        /\ \A f \in BaseFields :
               exOut.rec[f.name] = IF f.reads \cap exIn.kb.fails # {}
                                   THEN SentinelOf(f.width)
                                   ELSE Unfailed[f.name]

FeatureVector(r) ==
    IF exIn.kind = "face" THEN Face_get_feature_vector(r) ELSE Edge_get_feature_vector(r)

\* C6: get_feature_vector of an extracted entity returns a vector of the
\* kind's fixed width (the width it has when nothing failed), whichever
\* sub-steps succeeded or failed.
C6_FixedWidthVector ==
    Extracted =>
        /\ ~FeatureVector(exOut.rec).raised
        /\ Len(FeatureVector(exOut.rec).vec) = Len(FeatureVector(Unfailed).vec)

\* C7: extract_face_object / extract_edge_object never throws and returns a
\* record whose kind is one of the closed set of kind names; an unrecognised
\* type tag gives the 'other' kind.
C7_ClassificationTotal ==
    exPc = "returned" =>
        /\ ~exOut.raised
        /\ exOut.rec.type \in (IF exIn.kind = "face" THEN FaceKinds ELSE EdgeKinds)
        /\ (exIn.kb.tag = "GeomAbs_unrecognised" /\ exIn.kb.fails = {})
               => exOut.rec.type = (IF exIn.kind = "face" THEN "OtherSurface"
                                    ELSE "OtherCurve")

\* the kind-specific extraction failed: its accessor threw, or the down-cast
\* of a swept or offset surface yielded no surface
KindTierFailed ==
    /\ exOut.rec.vector # <<>>
    /\ \/ Throws(exIn.kb, "Geometry")
       \/ /\ Throws(exIn.kb, "DownCastNull")
          /\ exOut.rec.type \in {"SurfaceOfRevolution", "SurfaceOfExtrusion",
                                 "OffsetSurface"}

\* C8: when the kind-specific extraction of a recognised kind fails, every
\* kind-specific field of the entity is -1 and its error flag is raised.
C8_KindTierFailureFlagged ==
    Extracted /\ KindTierFailed =>
        /\ exOut.rec.error
        /\ \A i \in DOMAIN exOut.rec.vector :
               FieldOf(exOut.rec, exOut.rec.vector[i].name) = Num(-1)

C11_EmptyGraphIsError ==
    /\ (pc \in {"built", "returned"} /\ gLast.op = "from_step" /\ nodes = <<>>)
          => dgl_graph.raised = "ValueError" /\ ~dgl_graph.graph.made
    /\ (pc = "returned" /\ gLast.op = "from_step" /\ nodes = <<>>)
          => ret.status = "error" /\ ret.graph = NoGraph

C11_Witness ==
    /\ pc = "returned"
    /\ gLast.op = "from_step"
    /\ shape.nf = 0
    /\ nodes = <<>>
    /\ dgl_graph.raised = "ValueError"
    /\ ret = ErrorResult("ValueError")

\* the relation entries of the graph built, as a set
RelEntries(g) == UNION {{g.rel[ce][i] : i \in DOMAIN g.rel[ce]} : ce \in DOMAIN g.rel}

\* C12: add_edge on an edge whose source or destination id is no key of the
\* node map prints a diagnostic and leaves the node map and the edge list as
\* they were; the edge list holds only edges with both endpoints in the node
\* map, and every entry of a relation of the built graph is an edge of the
\* list, so the rejected edge is in no relation.
C12_RejectedEdgeExcluded ==
    /\ [][(/\ gLast'.op = "add_edge"
           /\ gLast'.n = gLast.n + 1
           /\ ~({gLast'.arg.src_node_id, gLast'.arg.dst_node_id} \subseteq NodeKeys(nodes)))
          => /\ nodes' = nodes
             /\ edges' = edges
             /\ gLast'.printed = Warning(gLast'.arg)]_vars
    /\ [](/\ \A i \in DOMAIN edges :
                {edges[i].src_node_id, edges[i].dst_node_id} \subseteq NodeKeys(nodes)
          /\ dgl_graph.graph.made =>
                /\ dgl_graph.raised # "KeyError"
                /\ {e.edge_id : e \in RelEntries(dgl_graph.graph)}
                       = {edges[i].edge_id : i \in DOMAIN edges})

C12_Witness ==
    /\ gLast.op = "add_edge"
    /\ gLast.printed = Warning(gLast.arg)
    /\ gLast.arg.src_node_id \in NodeKeys(nodes)
    /\ gLast.arg.dst_node_id \notin NodeKeys(nodes)
    /\ edges # <<>>

\* C13: after a successful build every face kind with a face is a node type
\* of the graph with as many nodes as the kind has faces and one feature row
\* per face; the graph made counts the nodes of a kind by its faces, not by
\* the index arrays of the relations, so that faces that are no endpoint of
\* an accepted edge are counted too.
C13_EveryFaceIsNode ==
    /\ (gLast.op = "build_dgl_graph" /\ dgl_graph.raised = NoException) =>
          \A t \in NodeTypes(nodes) :
              /\ t \in dgl_graph.graph.ntypes
              /\ dgl_graph.graph.num_nodes[t] = Len(nodes_by_type(nodes, t))
              /\ Len(dgl_graph.graph.ndata[t]) = Len(nodes_by_type(nodes, t))
    /\ (gLast.op = "build_dgl_graph" /\ dgl_graph.graph.made) =>
          \A t \in NodeTypes(nodes) :
              /\ t \in dgl_graph.graph.ntypes
              /\ dgl_graph.graph.num_nodes[t] = Len(nodes_by_type(nodes, t))

\* C14: for a cube-like solid (6 planar faces, 12 straight edges, each
\* bounding exactly 2 faces) every face is of the planar kind and the built
\* graph has exactly one node type, with 6 nodes, and exactly one relation
\* type, with 24 or 12 entries.
C14_CubeGraph ==
    pc = "built" =>
        /\ \A i \in DOMAIN faces_objects : faces_objects[i].type = "Plane"
        /\ Len(faces_objects) = 6
        /\ dgl_graph.raised = NoException
        /\ dgl_graph.graph.ntypes = {"Plane"}
        /\ dgl_graph.graph.num_nodes["Plane"] = 6
        /\ Len(dgl_graph.graph.ndata["Plane"]) = 6
        /\ DOMAIN dgl_graph.graph.rel = {<<"Plane", "Line", "Plane">>}
        /\ Len(dgl_graph.graph.rel[<<"Plane", "Line", "Plane">>]) \in {24, 12}

C14_Witness ==
    /\ pc = "built"
    /\ shape \in CubeShapes
    /\ Len(edges_obj) = 12
    /\ dgl_graph.raised = NoException
    /\ Len(dgl_graph.graph.rel[<<"Plane", "Line", "Plane">>]) = 12

\* C15: the second run of the pipeline on a shape, by the same
\* FeatureExtractor or by a new one, gives what the first run gave: the same
\* face ids, edge ids, kinds, edge endpoint ids and feature vectors, in the
\* same order.
C15_SameShapeSameResult ==
    (prev.n = 1 /\ Returned) => ResultOf(pc, faces_objects, edges_obj) = prev.result

C15_Witness ==
    /\ prev.n = 1
    /\ pc = "done"
    /\ stale
    /\ Len(faces_objects) > 1
    /\ Len(edges_obj) > 0
    /\ ResultOf(pc, faces_objects, edges_obj) = prev.result

(***************************************************************************)
(* Properties of the homogenizer, under SpecHom.                           *)
(***************************************************************************)

\* C16: to_homogeneous applied to a graph it has already been applied to
\* leaves every node feature tensor and every edge feature tensor as it
\* was, for every node type.
C16_HomogenizerIdempotent ==
    hom.n >= 2 => (hom.cur.x = hom.before.x /\ hom.cur.ex = hom.before.ex)

\* the global slot of a feature name: its place in the sorted union of the
\* kind-specific names, counted from 0
KindSpecificNames ==
    UNION {{NODE_SPECIFIC_FEATURES[t][i] : i \in DOMAIN NODE_SPECIFIC_FEATURES[t]} :
               t \in DOMAIN NODE_SPECIFIC_FEATURES}

SlotOf(name) == Cardinality({n \in KindSpecificNames : StrLess(n, name)})

\* C17: after node alignment of a freshly built graph every node type's
\* tensor is 9 + |G| wide, G the sorted union of the kind-specific names of
\* FeatureConfig; the first 9 columns are the original first 9, each
\* kind-specific field of the type is in the global slot of its name, and
\* every other column is 0.
C17_NodeAlignment ==
    hom.n = 1 =>
        LET own == NodeClassFields(hom.cur.ntype)
        IN  \A r \in DOMAIN hom.cur.x :
                /\ Len(hom.cur.x) = Len(hom.built.x)
                /\ Len(hom.cur.x[r]) = 9 + Cardinality(KindSpecificNames)
                /\ \A c \in 1..9 : hom.cur.x[r][c] = hom.built.x[r][c]
                /\ \A j \in DOMAIN own :
                       hom.cur.x[r][9 + SlotOf(own[j]) + 1] = hom.built.x[r][9 + j]
                /\ \A c \in 10..Len(hom.cur.x[r]) :
                       (\A j \in DOMAIN own : c # 9 + SlotOf(own[j]) + 1)
                           => hom.cur.x[r][c] = 0

C17_Witness ==
    /\ hom.n = 1
    /\ hom.cur.ntype = "torus"
    /\ Len(hom.cur.x) = 2
    /\ Len(hom.cur.x[1]) = 23
    /\ hom.cur.x[2][9 + 9 + 1] = ParamValue(FeatureName.arc_degree, 100)
    /\ hom.built.x[2][9 + 3] = ParamValue(FeatureName.arc_degree, 100)

C19_EdgeAlignmentRules ==
    hom.n = 1 =>
        \A r \in DOMAIN hom.cur.ex :
            LET v == hom.built.ex[r]
                a == hom.cur.ex[r]
            IN  /\ (hom.cur.etype = "straight" /\ Len(v) = 2)
                       => a = <<v[1], 0, 0, v[2]>>
                /\ (hom.cur.etype = "arc" /\ Len(v) = 4) => a = v
                /\ (hom.cur.etype \notin {"straight", "arc"} /\ Len(v) < 4)
                       => a = [c \in 1..4 |-> IF c <= Len(v) THEN v[c] ELSE 0]

C19_Witness ==
    /\ hom.n = 1
    /\ hom.cur.etype = "straight"
    /\ hom.built.ex = <<Edge_vector(2)>>
    /\ hom.cur.ex = <<<<201, 0, 0, 202>>>>


\* ---------------------------------------------------------------------------
\* process_step_files_batch (batch_graph_generator.py): a list of files, one
\* call of process_step_to_graph per file, in a pool of worker processes; the
\* collecting loop runs in the caller while the workers run.
\* ---------------------------------------------------------------------------

MaxFiles == 3
MaxWorkers == 2

\* what a file does to the process that runs process_step_to_graph on it:
\*   "missing"  step_file.exists() is false (lines 41-47)
\*   "raises"   an exception inside the try: the load fails, the graph is
\*              empty, ... (lines 66-72)
\*   "ok"       a graph is returned (lines 49-64)
\*   "crash"    the process dies in native code; no Python exception is raised
FileKinds == {"ok", "missing", "raises", "crash"}

\* paths are the positions 1..n: file_paths holds distinct paths
StepResult(path, kind) ==
    IF kind = "missing"
    THEN [source_file |-> path, status |-> "error", error |-> "FileNotFound"]
    ELSE IF kind = "raises"
    THEN [source_file |-> path, status |-> "error", error |-> "Exception"]
    ELSE [source_file |-> path, status |-> "success", error |-> NoException]

\* the except branch of the collecting loop, lines 134-139
CollectError(path, e) == [source_file |-> path, status |-> "error", error |-> e]

PendingFuture == [state |-> "pending", result |-> None, exception |-> NoException]

\* the result loop of lines 126-139 for one future
CollectedResult(path, future) ==
    IF future.exception = NoException THEN future.result
    ELSE CollectError(path, future.exception)

BatchInit ==
    /\ face_map = <<>>
    /\ edge_map = <<>>
    /\ RegIdle
    /\ PipeIdle
    /\ exIn = [kind |-> "none"]
    /\ exOut = [raised |-> FALSE, rec |-> NoRecord]
    /\ exPc = "off"
    /\ prev = NoRun
    /\ hom = NoHom
    /\ ui = NoUi
    /\ GraphIdle
    /\ \E n \in 0..MaxFiles, w \in 1..MaxWorkers :
          \E fs \in [1..n -> FileKinds] :
              batch = [phase |-> "call", files |-> fs, max_workers |-> w,
                       futures |-> <<>>, results |-> <<>>, yielded |-> {},
                       ran |-> {}, broken |-> FALSE,
                       order |-> <<>>, writes |-> <<>>]

BatchFrame == UNCHANGED <<regVars, pipeVars, exVars, prev, hom, ui, graphVars>>

\* lines 93-110: the empty list, the single file, the submission of the rest
EnterBatch ==
    /\ batch.phase = "call"
    /\ LET n == Len(batch.files) IN
       batch' = IF n = 0 THEN [batch EXCEPT !.phase = "returned"]
                ELSE IF n = 1 THEN [batch EXCEPT !.phase = "single"]
                ELSE [batch EXCEPT !.phase = "pool",
                                   !.futures = [i \in 1..n |-> PendingFuture],
                                   !.results = [i \in 1..n |-> None],
                                   !.writes = [i \in 1..n |-> 0]]
    /\ BatchFrame

\* lines 97-102: the single file is processed in the calling process
SingleFile ==
    /\ batch.phase = "single"
    /\ batch' = IF batch.files[1] = "crash"
                THEN [batch EXCEPT !.phase = "aborted"]
                ELSE [batch EXCEPT !.phase = "returned", !.ran = {1},
                                   !.results = <<StepResult(1, batch.files[1])>>,
                                   !.writes = <<1>>]
    /\ BatchFrame

Running == {i \in DOMAIN batch.futures : batch.futures[i].state = "running"}

Pending == {i \in DOMAIN batch.futures : batch.futures[i].state = "pending"}

\* a free worker takes the oldest work item
WorkerTakes ==
    /\ batch.phase = "pool"
    /\ ~batch.broken
    /\ Pending # {}
    /\ Cardinality(Running) < batch.max_workers
    /\ LET i == CHOOSE j \in Pending : \A k \in Pending : j <= k IN
       batch' = [batch EXCEPT !.futures[i].state = "running"]
    /\ BatchFrame

\* process_step_to_graph returns in the worker: the future gets its result
WorkerReturns(i) ==
    /\ batch.phase = "pool"
    /\ i \in Running
    /\ batch.files[i] # "crash"
    /\ batch' = [batch EXCEPT !.futures[i] = [state |-> "finished",
                                               result |-> StepResult(i, batch.files[i]),
                                               exception |-> NoException],
                              !.ran = @ \cup {i}]
    /\ BatchFrame

\* a worker process dies: the pool is broken, and every future that has not
\* finished (running or not yet taken) gets BrokenProcessPool
WorkerDies(i) ==
    /\ batch.phase = "pool"
    /\ i \in Running
    /\ batch.files[i] = "crash"
    /\ batch' = [batch EXCEPT
                   !.broken = TRUE,
                   !.futures = [j \in DOMAIN @ |->
                                  IF @[j].state = "finished" THEN @[j]
                                  ELSE [state |-> "finished", result |-> None,
                                        exception |-> "BrokenProcessPool"]]]
    /\ BatchFrame

\* the slot of a future: future_to_idx maps it to the index of its path in
\* file_paths (lines 113-116, 127); order is the futures yielded before it
future_to_idx_by_completion(i, order) == Len(order) + 1

future_to_idx(i, order) == i

\* one turn of the loop over as_completed, lines 126-143; order and writes
\* are history: the futures in the order yielded, the assignments per slot
Collect(i) ==
    /\ batch.phase = "pool"
    /\ i \in DOMAIN batch.futures
    /\ i \notin batch.yielded
    /\ batch.futures[i].state = "finished"
    /\ LET idx == future_to_idx(i, batch.order) IN
       batch' = [batch EXCEPT !.results[idx] = CollectedResult(i, batch.futures[i]),
                              !.writes[idx] = @ + 1,
                              !.yielded = @ \cup {i},
                              !.order = Append(@, i)]
    /\ BatchFrame

\* line 145, after every future was yielded
ReturnResults ==
    /\ batch.phase = "pool"
    /\ batch.yielded = DOMAIN batch.futures
    /\ batch' = [batch EXCEPT !.phase = "returned"]
    /\ BatchFrame

BatchNext ==
    \/ EnterBatch
    \/ SingleFile
    \/ WorkerTakes
    \/ \E i \in 1..MaxFiles : WorkerReturns(i)
    \/ \E i \in 1..MaxFiles : WorkerDies(i)
    \/ \E i \in 1..MaxFiles : Collect(i)
    \/ ReturnResults

SpecBatch == BatchInit /\ [][BatchNext]_vars

\* C20: a failure on one file stays with that file: the call returns (it is
\* never cut short), and when it has returned there is one result per file,
\* the file that failed has an error result, and every other file has the
\* result of its own processing.
C20_FailureScopedToFile ==
    /\ batch.phase # "aborted"
    /\ batch.phase = "returned" =>
          /\ Len(batch.results) = Len(batch.files)
          /\ \A i \in DOMAIN batch.files :
                /\ batch.results[i] # None
                /\ batch.files[i] = "crash" => batch.results[i].status = "error"
                /\ batch.files[i] # "crash" =>
                      /\ i \in batch.ran
                      /\ batch.results[i] = StepResult(i, batch.files[i])

\* C21: the list process_step_files_batch returns has the length and the
\* order of file_paths: result i is the result of file_paths[i] whatever the
\* order in which the futures complete, no slot is left None, and each slot
\* is assigned exactly once (never twice while the call runs).
C21_ResultsInInputOrder ==
    /\ \A i \in DOMAIN batch.writes : batch.writes[i] <= 1
    /\ batch.phase = "returned" =>
          /\ Len(batch.results) = Len(batch.files)
          /\ \A i \in DOMAIN batch.files :
                /\ batch.results[i] # None
                /\ batch.results[i].source_file = i
                /\ batch.writes[i] = 1

\* a call that returned after the futures were yielded out of input order
C21_Witness ==
    /\ batch.phase = "returned"
    /\ Len(batch.files) >= 2
    /\ \E k \in DOMAIN batch.order : batch.order[k] # k

\* FeatureExtractor.analyze_file on one file
AnalyzeFileNext ==
    \/ LoadFails
    \/ pc = "idle" /\ \E sh \in Shapes : AnalyzeShape(sh)
    \/ FaceLoopStep
    \/ FaceLoopExit
    \/ EdgeLoopStep
    \/ EdgeLoopExit

\* the two while loops keep running: an iteration, or the exit, that changes
\* the state is taken whenever it stays possible
LoopsRun ==
    /\ WF_vars(FaceLoopStep) /\ WF_vars(FaceLoopExit)
    /\ WF_vars(EdgeLoopStep) /\ WF_vars(EdgeLoopExit)

SpecLive == Init /\ [][AnalyzeFileNext]_vars /\ LoopsRun

\* C22: extract_faces_objects and extract_edges_objects terminate: an
\* analysis that is in one of the two loops eventually leaves it, also when
\* the current entity is skipped.
C22_AnalysisTerminates == (pc \in {"faces", "edges"}) ~> (pc \notin {"faces", "edges"})

\* the local index a face should get: the number of faces of its kind added
\* to the graph before it
LocalIndexOf(ns, id) ==
    LET p == CHOOSE i \in DOMAIN ns : ns[i].id = id
    IN  Cardinality({j \in 1..(p - 1) : ns[j].type = ns[p].type})

EdgesOfRelation(ns, es, ce, k) == {j \in 1..k : canonical_etype(ns, es[j]) = ce}

\* C23: in the graph built, the k-th accepted edge has an entry in the
\* relation (kind of its source face, edge kind, kind of its destination
\* face), at the place of its turn among the edges of that relation, with the
\* local indices of exactly its two faces and its own feature row; a relation
\* has no other entries; and the three lists of a relation (source indices,
\* destination indices, feature rows) have the same length, their i-th
\* members coming from the same edge.
C23_RelationEntries ==
    (gLast.op = "build_dgl_graph" /\ dgl_graph.graph.made) =>
        LET g    == dgl_graph.graph
            lists == edge_loop(nodes, edges, [c \in {} |-> <<>>])
        IN  /\ DOMAIN g.rel = {canonical_etype(nodes, edges[k]) : k \in DOMAIN edges}
            /\ \A k \in DOMAIN edges :
                  LET e   == edges[k]
                      ce  == canonical_etype(nodes, e)
                      pos == Cardinality(EdgesOfRelation(nodes, edges, ce, k))
                  IN  /\ ce = <<NodeAt(nodes, e.src_node_id).type, e.type,
                                NodeAt(nodes, e.dst_node_id).type>>
                      /\ pos \in DOMAIN g.rel[ce]
                      /\ g.rel[ce][pos].src = LocalIndexOf(nodes, e.src_node_id)
                      /\ g.rel[ce][pos].dst = LocalIndexOf(nodes, e.dst_node_id)
                      /\ g.rel[ce][pos].x = Edge_get_feature_vector(e).vec
                      /\ g.rel[ce][pos].edge_id = e.edge_id
            /\ DOMAIN lists = DOMAIN g.rel
            /\ \A ce \in DOMAIN g.rel :
                  /\ Len(g.rel[ce])
                        = Cardinality(EdgesOfRelation(nodes, edges, ce, Len(edges)))
                  /\ Len(lists[ce].src) = Len(g.rel[ce])
                  /\ Len(lists[ce].dst) = Len(g.rel[ce])
                  /\ Len(lists[ce].feat) = Len(g.rel[ce])
                  /\ \A i \in DOMAIN g.rel[ce] :
                        /\ lists[ce].src[i] = g.rel[ce][i].src
                        /\ lists[ce].dst[i] = g.rel[ce][i].dst
                        /\ lists[ce].feat[i] = g.rel[ce][i].x
                        /\ lists[ce].src[i] = LocalIndexOf(nodes, lists[ce].of[i].src_node_id)
                        /\ lists[ce].dst[i] = LocalIndexOf(nodes, lists[ce].of[i].dst_node_id)
                        /\ lists[ce].feat[i] = Edge_get_feature_vector(lists[ce].of[i]).vec

\* a graph built with an edge between two faces of one kind, whose local
\* indices differ
C23_Witness ==
    /\ gLast.op = "build_dgl_graph"
    /\ dgl_graph.raised = NoException
    /\ \E e \in RelEntries(dgl_graph.graph) : e.src # e.dst

\* a graph built with an edge between two faces of different kinds
C23_WitnessKinds ==
    /\ gLast.op = "build_dgl_graph"
    /\ dgl_graph.raised = NoException
    /\ \E ce \in DOMAIN dgl_graph.graph.rel : ce[1] # ce[3]

\* C24: in a graph built without error the faces of each kind have the local
\* indices 0, 1, ..., n-1 in the order they were added to the graph: the map
\* from face id to local index is one-to-one onto 0..n-1, a face added before
\* another of its kind has the smaller index, and row i of the kind's feature
\* tensor is the feature vector of the face with local index i.
C24_LocalIndices ==
    (gLast.op = "build_dgl_graph" /\ dgl_graph.raised = NoException) =>
        \A t \in NodeTypes(nodes) :
            LET at  == {i \in DOMAIN nodes : nodes[i].type = t}
                ids == {nodes[i].id : i \in at}
                ix(id) == node_type_id_mapping(nodes, t, id)
            IN  /\ Cardinality(ids) = Cardinality(at)
                /\ {ix(id) : id \in ids} = 0..(Cardinality(ids) - 1)
                /\ \A id1 \in ids, id2 \in ids : ix(id1) = ix(id2) => id1 = id2
                /\ \A i \in at, j \in at : i < j => ix(nodes[i].id) < ix(nodes[j].id)
                /\ Len(dgl_graph.graph.ndata[t]) = Cardinality(ids)
                /\ \A i \in at :
                      dgl_graph.graph.ndata[t][ix(nodes[i].id) + 1]
                          = Face_get_feature_vector(nodes[i]).vec

\* a graph built with two faces of one kind whose feature rows differ
C24_Witness ==
    /\ gLast.op = "build_dgl_graph"
    /\ dgl_graph.raised = NoException
    /\ \E t \in DOMAIN dgl_graph.graph.ndata :
          /\ Len(dgl_graph.graph.ndata[t]) >= 2
          /\ dgl_graph.graph.ndata[t][1] # dgl_graph.graph.ndata[t][2]

\* C25: within the analysis of a file the face traversal is over before the
\* edge traversal starts (while faces are traversed no edge has an id or a
\* record; when edges are traversed the face explorer is at its end and every
\* face of the shape has its id), and the edge traversal allocates no face
\* id: the face map, and so face_count, is the same after each of its steps.
C25_FacesBeforeEdges ==
    /\ [][(pc = "edges" /\ pc' \in {"edges", "done", "raised"}) =>
              /\ face_map' = face_map
              /\ face_count' = face_count]_vars
    /\ [](/\ pc = "faces" => (edge_count = 0 /\ edges_obj = <<>>)
          /\ pc = "edges" =>
                /\ fpos > Len(FaceVisits(shape))
                /\ \A f \in 1..shape.nf :
                      FindIndex(face_map, Shape("cur", f, "FORWARD")) # 0)

\* an edge with two bounding faces has been processed
C25_Witness ==
    /\ pc \in {"edges", "done"}
    /\ \E i \in DOMAIN edges_obj : Len(edges_obj[i].connected_faces) = 2
    /\ face_count >= 2

\* the fixed scale of Continuity: C0=0, G1=1, C1=2, G2=3, C2=4, C3=5, CN=6
ContinuityScale ==
    [GeomAbs_C0 |-> 0, GeomAbs_G1 |-> 1, GeomAbs_C1 |-> 2, GeomAbs_G2 |-> 3,
     GeomAbs_C2 |-> 4, GeomAbs_C3 |-> 5, GeomAbs_CN |-> 6]

\* C26: the continuity stored in an edge record is -1 when fewer than two
\* bounding faces are known or the kernel's continuity query fails, and
\* otherwise the kernel's answer for the edge and its first two known faces
\* on the fixed scale; it is always one of -1, 0, ..., 6.
C26_ContinuityClass ==
    (exPc = "returned" /\ exIn.kind = "edge" /\ ~exOut.raised) =>
        LET r == exOut.rec
        IN  /\ r.continuity \in {Num(c) : c \in -1..6}
            /\ (Len(exIn.faces) < 2 \/ Throws(exIn.kb, "Continuity"))
                  => r.continuity = Num(-1)
            /\ (Len(exIn.faces) >= 2 /\ ~Throws(exIn.kb, "Continuity")
                   /\ exIn.kb.cont \in DOMAIN ContinuityScale)
                  => r.continuity = Num(ContinuityScale[exIn.kb.cont])

\* C27: the output of an analysis holds at most one record per face and per
\* edge of the shape, although the traversal meets an edge once per face it
\* bounds: in the face list, and in the edge list, no two records have the
\* same id and no two are records of the same entity.
C27_OneRecordPerEntity ==
    /\ \A i \in DOMAIN faces_objects, j \in DOMAIN faces_objects :
           i # j => /\ faces_objects[i].id # faces_objects[j].id
                    /\ faces_objects[i].face.ent # faces_objects[j].face.ent
    /\ \A i \in DOMAIN edges_obj, j \in DOMAIN edges_obj :
           i # j => /\ edges_obj[i].edge_id # edges_obj[j].edge_id
                    /\ edges_obj[i].edge.ent # edges_obj[j].edge.ent

\* an analysis that returned after meeting an edge more than once
C27_Witness ==
    /\ pc = "done"
    /\ edges_obj # <<>>
    /\ \E i \in DOMAIN EdgeVisits(shape), j \in DOMAIN EdgeVisits(shape) :
           i # j /\ EdgeVisits(shape)[i].ent = EdgeVisits(shape)[j].ent
    /\ Len(edges_obj) = shape.ne

\* an analysis that returned after meeting a face twice
C27_WitnessFace ==
    /\ pc = "done"
    /\ shape.dup
    /\ Len(faces_objects) = shape.nf

\* the places of the relation entries of a graph: relation and position
EntryPlaces(g) == UNION {{<<ce, i>> : i \in DOMAIN g.rel[ce]} : ce \in DOMAIN g.rel}

\* C28: every accepted edge of a file gives exactly one entry of the graph,
\* directed from the first of its bounding faces to the last: there are as
\* many entries over all relations as accepted edges, the entry of an edge
\* has the local indices of these two faces as source and destination, and
\* an edge with a single bounding face is a self-loop on that face.
C28_OneDirectedEntryPerEdge ==
    (pc = "built" /\ dgl_graph.graph.made) =>
        LET g == dgl_graph.graph
        IN  /\ Cardinality(EntryPlaces(g)) = Len(edges)
            /\ \A k \in DOMAIN edges :
                  LET e     == edges[k]
                      first == e.connected_faces[1]
                      last  == e.connected_faces[Len(e.connected_faces)]
                      at    == {p \in EntryPlaces(g) : g.rel[p[1]][p[2]].edge_id = e.edge_id}
                  IN  /\ Cardinality(at) = 1
                      /\ \A p \in at :
                            /\ p[1] = <<NodeAt(nodes, first).type, e.type,
                                        NodeAt(nodes, last).type>>
                            /\ g.rel[p[1]][p[2]].src = LocalIndexOf(nodes, first)
                            /\ g.rel[p[1]][p[2]].dst = LocalIndexOf(nodes, last)
                            /\ Len(e.connected_faces) = 1 =>
                                  /\ p[1][1] = p[1][3]
                                  /\ g.rel[p[1]][p[2]].src = g.rel[p[1]][p[2]].dst

\* a graph of a file with an edge between two faces and an edge of one face
C28_Witness ==
    /\ pc = "built"
    /\ dgl_graph.graph.made
    /\ \E k \in DOMAIN edges : Len(edges[k].connected_faces) = 1
    /\ \E k \in DOMAIN edges :
          edges[k].connected_faces[1]
              # edges[k].connected_faces[Len(edges[k].connected_faces)]

\* C29: after any sequence of add_node and add_edge calls every edge of the
\* edge list has its source id and its destination id among the keys of the
\* node map, and a build finds every node and every local index it looks up:
\* it raises no KeyError.
C29_EdgeEndpointsAreNodes ==
    /\ \A i \in DOMAIN edges :
          /\ edges[i].src_node_id \in NodeKeys(nodes)
          /\ edges[i].dst_node_id \in NodeKeys(nodes)
    /\ gLast.op = "build_dgl_graph" =>
          /\ dgl_graph.raised # "KeyError"
          /\ \A i \in DOMAIN edges :
                /\ \E l \in DOMAIN nodes_by_type(nodes, NodeAt(nodes, edges[i].src_node_id).type) :
                      nodes_by_type(nodes, NodeAt(nodes, edges[i].src_node_id).type)[l].id
                          = edges[i].src_node_id
                /\ \E l \in DOMAIN nodes_by_type(nodes, NodeAt(nodes, edges[i].dst_node_id).type) :
                      nodes_by_type(nodes, NodeAt(nodes, edges[i].dst_node_id).type)[l].id
                          = edges[i].dst_node_id

\* a build after an edge between two nodes was accepted and a call added
\* nothing (an edge refused, or a node added again)
C29_Witness ==
    /\ gLast.op = "build_dgl_graph"
    /\ edges # <<>>
    /\ gLast.n > Len(nodes) + Len(edges)
    /\ \E i \in DOMAIN edges : edges[i].src_node_id # edges[i].dst_node_id


\* ---------------------------------------------------------------------------
\* FileHandler.process_batch_files (src/src/handlers.py), stage 1: the loader
\* thread builds the dataset and reports through progress_callback, which
\* appends to the list progress_queue; the generator polls the list and
\* yields what it pops.  Each list operation is one step (list.append and
\* list.pop are atomic in CPython); the threads interleave between them.
\* ---------------------------------------------------------------------------

MaxMsgs == 3

\* progress_queue.pop(0), taking the last member instead of the first
pop_last(q) == [item |-> q[Len(q)], rest |-> SubSeq(q, 1, Len(q) - 1)]

\* progress_queue.pop(0), lines 218 and 232
pop_first(q) == [item |-> Head(q), rest |-> Tail(q)]

UiInit ==
    /\ face_map = <<>>
    /\ edge_map = <<>>
    /\ RegIdle
    /\ PipeIdle
    /\ exIn = [kind |-> "none"]
    /\ exOut = [raised |-> FALSE, rec |-> NoRecord]
    /\ exPc = "off"
    /\ prev = NoRun
    /\ hom = NoHom
    /\ batch = NoBatch
    /\ GraphIdle
    /\ \E some \in BOOLEAN :
          ui = [pc |-> "call", files |-> some, thread |-> "none", load_error |-> FALSE,
                progress_queue |-> <<>>, appended |-> <<>>, yielded |-> <<>>,
                reports |-> 0, complete |-> FALSE]

UiFrame == UNCHANGED <<regVars, pipeVars, exVars, prev, hom, batch, graphVars>>

\* lines 157-212: no files, or the first update and the start of the thread
StartBatchFiles ==
    /\ ui.pc = "call"
    /\ ui' = IF ui.files
             THEN [ui EXCEPT !.pc = "alive", !.thread = "running"]
             ELSE [ui EXCEPT !.pc = "end"]
    /\ UiFrame

\* the loader thread calls progress_callback(current, total, message), lines
\* 186-191: with total > 0 the message is appended; the messages are numbered
\* in the order of the calls.  appended is history.
ProgressCallback(total) ==
    /\ ui.thread = "running"
    /\ ui.reports < MaxMsgs
    /\ ui' = IF total > 0
             THEN [ui EXCEPT !.reports = @ + 1,
                             !.progress_queue = Append(@, ui.reports + 1),
                             !.appended = Append(@, ui.reports + 1)]
             ELSE [ui EXCEPT !.reports = @ + 1]
    /\ UiFrame

\* load_in_background returns, lines 199-208, with the dataset or the error
LoaderEnds(failed) ==
    /\ ui.thread = "running"
    /\ ui' = [ui EXCEPT !.thread = "finished", !.load_error = failed]
    /\ UiFrame

\* line 215: while load_thread.is_alive()
TestAlive ==
    /\ ui.pc = "alive"
    /\ ui' = [ui EXCEPT !.pc = IF ui.thread = "running" THEN "poll" ELSE "drain"]
    /\ UiFrame

\* lines 217 and 231: while progress_queue
TestQueue ==
    /\ ui.pc \in {"poll", "drain"}
    /\ ui' = [ui EXCEPT !.pc = IF ui.progress_queue # <<>>
                               THEN (IF ui.pc = "poll" THEN "poll_pop" ELSE "drain_pop")
                               ELSE (IF ui.pc = "poll" THEN "sleep" ELSE "join")]
    /\ UiFrame

\* lines 218-224 and 232-238: pop(0) and the yield of what was popped;
\* yielded is history
PopAndYield ==
    /\ ui.pc \in {"poll_pop", "drain_pop"}
    /\ ui.progress_queue # <<>>
    /\ LET p == pop_first(ui.progress_queue)
       IN  ui' = [ui EXCEPT !.progress_queue = p.rest,
                            !.yielded = Append(@, p.item),
                            !.pc = IF ui.pc = "poll_pop" THEN "poll" ELSE "drain"]
    /\ UiFrame

\* line 228: time.sleep(0.3)
Sleep ==
    /\ ui.pc = "sleep"
    /\ ui' = [ui EXCEPT !.pc = "alive"]
    /\ UiFrame

\* lines 240-253: join, then the error is raised or the update of stage 1
\* "complete" is yielded
JoinAndComplete ==
    /\ ui.pc = "join"
    /\ ui.thread = "finished"
    /\ ui' = IF ui.load_error
             THEN [ui EXCEPT !.pc = "end"]
             ELSE [ui EXCEPT !.pc = "stage2", !.complete = TRUE]
    /\ UiFrame

UiNext ==
    \/ StartBatchFiles
    \/ \E total \in 0..1 : ProgressCallback(total)
    \/ \E failed \in BOOLEAN : LoaderEnds(failed)
    \/ TestAlive
    \/ TestQueue
    \/ PopAndYield
    \/ Sleep
    \/ JoinAndComplete

SpecUi == UiInit /\ [][UiNext]_vars

\* C30: the progress messages are yielded once each and in the order in
\* which the loader thread appended them: at every moment what was yielded,
\* followed by what is in the queue, is what was appended; and the update
\* "complete" of stage 1 is yielded only when the loader thread has finished
\* and the queue is empty, every message having been yielded (as they are
\* when the generator joins the thread, whether the load failed or not).
C30_ProgressInOrder ==
    /\ ui.pc \notin {"off", "call"} =>
          /\ ui.yielded \o ui.progress_queue = ui.appended
          /\ \A i \in DOMAIN ui.appended, j \in DOMAIN ui.appended :
                i # j => ui.appended[i] # ui.appended[j]
          /\ ui.pc = "join" =>
                /\ ui.thread = "finished"
                /\ ui.yielded = ui.appended
          /\ ui.complete =>
                /\ ui.thread = "finished"
                /\ ui.progress_queue = <<>>
                /\ ui.yielded = ui.appended

\* "complete" was yielded after every message of a loader that reported
\* MaxMsgs times
C30_Witness ==
    /\ ui.pc = "stage2"
    /\ ui.complete
    /\ Len(ui.yielded) = MaxMsgs

====
